---- MODULE Spec2Model ----
(***************************************************************************)
(* Model of the tra-vfd library: VAT arithmetic (vat.go), receipt item     *)
(* processing and receipt documents (receipt.go), Z-report aggregation and *)
(* documents (report.go), and payload signing (crypto.go).                 *)
(*                                                                         *)
(* Money.  The code keeps amounts in float64.  Here an amount is an        *)
(* integer number of mills (1/1000 of a shilling): 4237.29 is 4237290.     *)
(* math.Round(x*100)/100 and fmt.Sprintf("%.2f", x) agree with exact       *)
(* arithmetic except when x lies exactly half-way between two cents, where *)
(* the binary representation of x decides.  Every amount drawn below is an *)
(* even number of mills, so no amount and no sum of amounts is such a tie  *)
(* (a division by 1.18 never is: 100*a = 59*(2k+1) has no solution).       *)
(*                                                                         *)
(* XML.  A document is a sequence of tokens, each a string: a tag or the   *)
(* text of a leaf element, in the order encoding/xml writes them.          *)
(***************************************************************************)
EXTENDS Integers, Sequences, FiniteSets, TLC

VARIABLES call   \* the last library call: its name, its arguments, its result

vars == <<call>>

---------------------------------------------------------------------------
(* Bounds of the model *)

\* longest item list handed to ProcessItems
MaxItems == 2

\* largest whole-cent amount (in cents) handed to NetAmount on its own
MaxCents == 120

\* longest list of VAT entries handed to sumVatTotals on its own
MaxVats == 2

\* longest list of payments handed to sumPayments on its own
MaxPayments == 3

\* longest list of payments of a receipt or report document
MaxDocPayments == 2

---------------------------------------------------------------------------
(* float64 helpers *)

\* math.Round of the exact quotient n/d (d > 0): nearest integer, halves
\* away from zero
RoundDiv(n, d) ==
    LET m == IF n < 0 THEN -n ELSE n
        q == m \div d
        up == IF 2 * (m % d) >= d THEN q + 1 ELSE q
    IN IF n < 0 THEN -up ELSE up

\* math.Round(x*100)/100 on an amount in mills
Round2(x) == 10 * RoundDiv(x, 10)

Abs(x) == IF x < 0 THEN -x ELSE x

\* two decimal digits of a number of cents
TwoDigits(c) == ToString((c % 100) \div 10) \o ToString(c % 10)

\* fmt.Sprintf("%.2f", x) on an amount in mills; Go prints the sign of a
\* negative value also when it rounds to zero ("-0.00")
Fmt2(x) ==
    LET c == Abs(RoundDiv(x, 10))
    IN (IF x < 0 THEN "-" ELSE "") \o ToString(c \div 100) \o "." \o TwoDigits(c)

---------------------------------------------------------------------------
(* vat.go *)

StandardVATCODE == 1
SpecialVATCODE == 2
ZeroVATCODE == 3
SpecialReliefVATCODE == 4
ExemptedVATCODE == 5
TaxableItemCode == 1
NonTaxableItemCode == 3

\* Percentage is in whole percent points (the table holds 18.00 and 0.00)
standardVAT == [ID |-> "A", Code |-> StandardVATCODE, Percentage |-> 18]
specialVAT == [ID |-> "B", Code |-> SpecialVATCODE, Percentage |-> 0]
zeroVAT == [ID |-> "C", Code |-> ZeroVATCODE, Percentage |-> 0]
specialReliefVAT == [ID |-> "D", Code |-> SpecialReliefVATCODE, Percentage |-> 0]
exemptedVAT == [ID |-> "E", Code |-> ExemptedVATCODE, Percentage |-> 0]

\* a slip whose default is the zero rated category
ParseTaxCodeDefaultZero(code) ==
    CASE code = 1 -> standardVAT
      [] code = 2 -> specialVAT
      [] code = 3 -> zeroVAT
      [] code = 4 -> specialReliefVAT
      [] code = 5 -> exemptedVAT
      [] OTHER -> zeroVAT

ParseTaxCode(code) ==
    CASE code = 1 -> standardVAT
      [] code = 2 -> specialVAT
      [] code = 3 -> zeroVAT
      [] code = 4 -> specialReliefVAT
      [] code = 5 -> exemptedVAT
      [] OTHER -> standardVAT

\* a slip that truncates the net amount to the cent instead of rounding it
vatNetAmountTruncated(v, totalAmount) ==
    10 * ((totalAmount * 10) \div (100 + v.Percentage))

\* (v *ValueAddedTax) NetAmount: totalAmount / (1 + Percentage/100), rounded
\* to 2 decimals.  The quotient in cents is total * 10 / (100 + Percentage)
\* for a total in mills.
vatNetAmount(v, totalAmount) ==
    10 * RoundDiv(totalAmount * 10, 100 + v.Percentage)

NetAmount(taxCode, price) == vatNetAmount(ParseTaxCode(taxCode), price)

\* a slip that taxes the gross price: price * rate/100
ValueAddedTaxAmountOnGross(taxCode, price) ==
    10 * RoundDiv(price * ParseTaxCode(taxCode).Percentage, 1000)

ValueAddedTaxAmount(taxCode, price) ==
    LET vat == ParseTaxCode(taxCode)
        netAmount == vatNetAmount(vat, price)
        amount == price - netAmount
    IN Round2(amount)

\* a slip that prints the rate with %v: "A-18", "C-0"
ReportTaxRateIDPlainRate(taxCode) ==
    LET vat == ParseTaxCode(taxCode)
    IN vat.ID \o "-" \o ToString(vat.Percentage)

\* ReportTaxRateID: fmt.Sprintf("%s-%.2f", vat.ID, vat.Percentage), the
\* percentage taken in thousandths for Fmt2
ReportTaxRateID(taxCode) ==
    LET vat == ParseTaxCode(taxCode)
    IN vat.ID \o "-" \o Fmt2(1000 * vat.Percentage)

---------------------------------------------------------------------------
(* receipt.go: ProcessItems *)

\* a slip that renders the discounted amount as the item's AMT
itemXMLDiscounted(item) ==
    [ID |-> item.ID, DESC |-> item.Description, QTY |-> item.Quantity,
     TAXCODE |-> item.TaxCode,
     AMT |-> item.Quantity * item.UnitPrice - item.Discount]

\* the xml ITEM of one item; AMT is Quantity * UnitPrice
itemXML(item) ==
    [ID |-> item.ID, DESC |-> item.Description, QTY |-> item.Quantity,
     TAXCODE |-> item.TaxCode, AMT |-> item.Quantity * item.UnitPrice]

\* a slip that overwrites the entry of a category already seen
addVatOverwrite(vatTotals, vatID, NETAMOUNT, TAXAMOUNT) ==
    (vatID :> [VATRATE |-> vatID, NETTAMOUNT |-> NETAMOUNT,
               TAXAMOUNT |-> TAXAMOUNT]) @@ vatTotals

\* vatTotals after one more item of category vatID: the first item of a
\* category adds the entry, a later one adds to it
addVat(vatTotals, vatID, NETAMOUNT, TAXAMOUNT) ==
    IF vatID \notin DOMAIN vatTotals
    THEN vatTotals @@ (vatID :> [VATRATE |-> vatID, NETTAMOUNT |-> NETAMOUNT,
                                 TAXAMOUNT |-> TAXAMOUNT])
    ELSE [vatTotals EXCEPT ![vatID].NETTAMOUNT = @ + NETAMOUNT,
                           ![vatID].TAXAMOUNT = @ + TAXAMOUNT]

\* the local variables of ProcessItems before its loop
loopStart ==
    [DISCOUNT |-> 0, TOTALTAXEXCLUSIVE |-> 0, TOTALTAXINCLUSIVE |-> 0,
     vatTotals |-> <<>>, ITEMS |-> <<>>]

\* a slip that adds to the tax exclusive total the net amount of the line
\* before its discount
loopBodyNetBeforeDiscount(acc, item) ==
    LET itemAmount == item.Quantity * item.UnitPrice
        itemAmountWithoutDiscount == itemAmount - item.Discount
        NETAMOUNT == NetAmount(item.TaxCode, itemAmountWithoutDiscount)
        TAXAMOUNT == ValueAddedTaxAmount(item.TaxCode, itemAmountWithoutDiscount)
        vatID == ParseTaxCode(item.TaxCode).ID
    IN [DISCOUNT |-> acc.DISCOUNT + item.Discount,
        TOTALTAXEXCLUSIVE |->
            acc.TOTALTAXEXCLUSIVE + NetAmount(item.TaxCode, itemAmount),
        TOTALTAXINCLUSIVE |-> acc.TOTALTAXINCLUSIVE + itemAmountWithoutDiscount,
        vatTotals |-> addVat(acc.vatTotals, vatID, NETAMOUNT, TAXAMOUNT),
        ITEMS |-> Append(acc.ITEMS, itemXML(item))]

\* one iteration of the loop over the items
loopBody(acc, item) ==
    LET itemAmount == item.Quantity * item.UnitPrice
        itemAmountWithoutDiscount == itemAmount - item.Discount
        NETAMOUNT == NetAmount(item.TaxCode, itemAmountWithoutDiscount)
        TAXAMOUNT == ValueAddedTaxAmount(item.TaxCode, itemAmountWithoutDiscount)
        vatID == ParseTaxCode(item.TaxCode).ID
    IN [DISCOUNT |-> acc.DISCOUNT + item.Discount,
        TOTALTAXEXCLUSIVE |-> acc.TOTALTAXEXCLUSIVE + NETAMOUNT,
        TOTALTAXINCLUSIVE |-> acc.TOTALTAXINCLUSIVE + itemAmountWithoutDiscount,
        vatTotals |-> addVat(acc.vatTotals, vatID, NETAMOUNT, TAXAMOUNT),
        ITEMS |-> Append(acc.ITEMS, itemXML(item))]

RECURSIVE itemsLoop(_)
itemsLoop(items) ==
    IF items = <<>> THEN loopStart
    ELSE loopBody(itemsLoop(SubSeq(items, 1, Len(items) - 1)), items[Len(items)])

\* a slip that rounds the totals inside ProcessItems
processTotalsRounded(acc) ==
    [TOTALTAXEXCL |-> Round2(acc.TOTALTAXEXCLUSIVE),
     TOTALTAXINCL |-> Round2(acc.TOTALTAXINCLUSIVE),
     DISCOUNT |-> Round2(acc.DISCOUNT)]

\* the totals ProcessItems returns: the sums as accumulated
processTotals(acc) ==
    [TOTALTAXEXCL |-> acc.TOTALTAXEXCLUSIVE,
     TOTALTAXINCL |-> acc.TOTALTAXINCLUSIVE,
     DISCOUNT |-> acc.DISCOUNT]

\* the orders in which a range over a Go map with these keys can run: the
\* language leaves the order unspecified and the runtime randomizes it
MapOrders(keys) ==
    {o \in [1..Cardinality(keys) -> keys] :
        \A i, j \in 1..Cardinality(keys) : i # j => o[i] # o[j]}

\* ProcessItems(items), with the order in which the range over vatTotals ran
ProcessItems(items, order) ==
    LET acc == itemsLoop(items)
    IN [ITEMS |-> acc.ITEMS,
        VATTOTALS |-> [i \in 1..Len(order) |->
            [VATRATE |-> acc.vatTotals[order[i]].VATRATE,
             NETTAMOUNT |-> Fmt2(acc.vatTotals[order[i]].NETTAMOUNT),
             TAXAMOUNT |-> Fmt2(acc.vatTotals[order[i]].TAXAMOUNT)]],
        TOTALS |-> processTotals(acc)]

---------------------------------------------------------------------------
(* crypto.go *)

\* Go's nil, as an error and as a byte slice
Nil == "<nil>"

\* sha1.Sum(payload): the digest stands for the payload it was taken of
\* (no two payloads of the model collide)
sha1(payload) == "sha1(" \o payload \o ")"

\* rsa.SignPKCS1v15(rand.Reader, priv, crypto.SHA1, hashed): an error for a
\* key the library refuses, else the signature made with the private
\* exponent priv.d over the digest
rsaSignPKCS1v15(priv, hashed) ==
    IF ~priv.usable
    THEN [out |-> Nil, err |-> "crypto/rsa: message too long for RSA key size"]
    ELSE [out |-> "rsa(" \o ToString(priv.d) \o "," \o hashed \o ")", err |-> Nil]

\* rsa.VerifyPKCS1v15(pub, crypto.SHA1, hashed, sig): nil exactly when sig is
\* the signature over hashed made with the private exponent of pub's pair
rsaVerifyPKCS1v15(pub, hashed, sig) ==
    IF sig = "rsa(" \o ToString(pub) \o "," \o hashed \o ")"
    THEN Nil ELSE "crypto/rsa: verification error"

\* base64.StdEncoding.EncodeToString
encodeBase64Bytes(val) == "b64(" \o val \o ")"

\* base64.StdEncoding.DecodeString: the bytes of an encoding, an error for
\* any other string
base64DecodeString(str) ==
    IF Len(str) >= 5 /\ SubSeq(str, 1, 4) = "b64(" /\ SubSeq(str, Len(str), Len(str)) = ")"
    THEN [out |-> SubSeq(str, 5, Len(str) - 1), err |-> Nil]
    ELSE [out |-> "", err |-> "illegal base64 data at input byte 0"]

signPayload(priv, payload) == rsaSignPKCS1v15(priv, sha1(payload))

verifySignature(pub, hash, sig) == rsaVerifyPKCS1v15(pub, hash, sig)

\* a slip that returns the signature without verifying it
SignUnverified(privateKey, payload) ==
    LET signed == signPayload(privateKey, payload)
    IN IF signed.err # Nil
       THEN [out |-> Nil, err |-> "unable to sign the payload: " \o signed.err]
       ELSE [out |-> signed.out, err |-> Nil]

Sign(privateKey, payload) ==
    LET signed == signPayload(privateKey, payload)
    IN IF signed.err # Nil
       THEN [out |-> Nil, err |-> "unable to sign the payload: " \o signed.err]
       ELSE LET hash == sha1(payload)
                err == verifySignature(privateKey.PublicKey, hash, signed.out)
            IN IF err # Nil
               THEN [out |-> Nil, err |-> "could not verify signature " \o err]
               ELSE [out |-> signed.out, err |-> Nil]

\* a slip that drops the result of the RSA verification
VerifySignatureUnchecked(publicKey, payload, signature) ==
    LET sg == base64DecodeString(signature)
    IN IF sg.err # Nil THEN "could not verify signature " \o sg.err ELSE Nil

VerifySignature(publicKey, payload, signature) ==
    LET sg == base64DecodeString(signature)
    IN IF sg.err # Nil
       THEN "could not verify signature " \o sg.err
       ELSE LET hash == sha1(payload)
                err == rsaVerifyPKCS1v15(publicKey, hash, sg.out)
            IN IF err # Nil THEN "could not verify signature " \o err ELSE Nil

SignPayload(privateKey, payload) ==
    LET signed == signPayload(privateKey, payload)
    IN IF signed.err # Nil
       THEN [out |-> Nil, err |-> "unable to sign the payload: " \o signed.err]
       ELSE LET err == VerifySignature(privateKey.PublicKey, payload,
                                       encodeBase64Bytes(signed.out))
            IN IF err # Nil
               THEN [out |-> Nil, err |-> "invalid signature " \o err]
               ELSE [out |-> signed.out, err |-> Nil]

---------------------------------------------------------------------------
(* report.go: the aggregation of a Z report *)

\* a slip that forms the key from the ID alone, with the rate of its category
vatKeyByID(vat) == vat.ID \o "-" \o (IF vat.ID = "A" THEN "18.00" ELSE "0.00")

\* fmt.Sprintf("%s-%.2f", vat.ID, vat.Rate)
vatKey(vat) == vat.ID \o "-" \o Fmt2(vat.Rate)

\* the keys of vatTotalMap, in the order sumVatTotals emits them
vatKeys == <<"A-18.00", "B-0.00", "C-0.00", "D-0.00", "E-0.00">>

\* m[key] of a Go map: the zero value for a missing key
vatMapGet(m, key) ==
    IF key \in DOMAIN m THEN m[key] ELSE [NetAmount |-> 0, TaxAmount |-> 0]

\* a slip that keeps the last entry of a key instead of the sum
vatMapPutLast(m, vat) ==
    (vatKey(vat) :> [NetAmount |-> vat.NetAmount, TaxAmount |-> vat.TaxAmount]) @@ m

\* vatTotalMap[rate] = {vatTotalMap[rate].NetAmount + vat.NetAmount, ...}
vatMapPut(m, vat) ==
    (vatKey(vat) :>
        [NetAmount |-> vatMapGet(m, vatKey(vat)).NetAmount + vat.NetAmount,
         TaxAmount |-> vatMapGet(m, vatKey(vat)).TaxAmount + vat.TaxAmount]) @@ m

RECURSIVE vatTotalMap(_)
vatTotalMap(vats) ==
    IF vats = <<>>
    THEN [k \in {vatKeys[i] : i \in 1..5} |-> [NetAmount |-> 0, TaxAmount |-> 0]]
    ELSE vatMapPut(vatTotalMap(SubSeq(vats, 1, Len(vats) - 1)), vats[Len(vats)])

\* sumVatTotals: the VATTOTAL list of the returned models.VATTOTALS
sumVatTotals(vats) ==
    LET m == vatTotalMap(vats)
    IN [i \in 1..5 |->
          [VATRATE |-> vatKeys[i],
           NETTAMOUNT |-> Fmt2(m[vatKeys[i]].NetAmount),
           TAXAMOUNT |-> Fmt2(m[vatKeys[i]].TaxAmount)]]

\* the keys of paymentMap, in the order sumPayments emits them
paymentKeys == <<"CASH", "CHEQUE", "CCARD", "EMONEY", "INVOICE">>

\* a slip that keeps the last amount of a type instead of the sum
paymentMapPutLast(m, p) == (p.Type :> p.Amount) @@ m

\* a slip that counts a payment of an unknown type as cash
paymentMapPutDefaultCash(m, p) ==
    LET pType == IF p.Type \in DOMAIN m THEN p.Type ELSE "CASH"
    IN (pType :> (m[pType] + p.Amount)) @@ m

\* paymentMap[pType] += p.Amount
paymentMapPut(m, p) ==
    (p.Type :> ((IF p.Type \in DOMAIN m THEN m[p.Type] ELSE 0) + p.Amount)) @@ m

RECURSIVE paymentMap(_)
paymentMap(payments) ==
    IF payments = <<>>
    THEN [k \in {paymentKeys[i] : i \in 1..5} |-> 0]
    ELSE paymentMapPut(paymentMap(SubSeq(payments, 1, Len(payments) - 1)),
                       payments[Len(payments)])

\* sumPayments: the PAYMENT list of the returned models.PAYMENTS
sumPayments(payments) ==
    LET m == paymentMap(payments)
    IN [i \in 1..5 |->
          [PMTTYPE |-> paymentKeys[i], PMTAMOUNT |-> Fmt2(m[paymentKeys[i]])]]

---------------------------------------------------------------------------
(* encoding/xml as the documents use it *)

\* strconv.FormatFloat(f, 'g', -1, 64), which encoding/xml uses for a
\* float64 field: the shortest decimal that reads back as f, with no
\* trailing zeros and no decimal point for a whole number.  Amounts of the
\* model are below 1e6 and at least 0.001, where Go does not switch to the
\* exponent form.
XmlFloat(x) ==
    LET m == Abs(x)
        frac == m % 1000
        digits == IF frac = 0 THEN ""
                  ELSE IF frac % 100 = 0 THEN "." \o ToString(frac \div 100)
                  ELSE IF frac % 10 = 0
                       THEN "." \o ToString(frac \div 100) \o ToString((frac \div 10) % 10)
                  ELSE "." \o ToString(frac \div 100) \o ToString((frac \div 10) % 10)
                           \o ToString(frac % 10)
    IN (IF x < 0 THEN "-" ELSE "") \o ToString(m \div 1000) \o digits

\* a leaf element <tag>text</tag>
Leaf(tag, text) == <<"<" \o tag \o ">", text, "</" \o tag \o ">">>

\* an element <tag>...</tag> around the tokens of its children
Element(tag, children) == <<"<" \o tag \o ">">> \o children \o <<"</" \o tag \o ">">>

RECURSIVE Flatten(_)
Flatten(seqs) == IF seqs = <<>> THEN <<>> ELSE seqs[1] \o Flatten(Tail(seqs))

\* the bytes of the tokens lo..hi of a token sequence
RECURSIVE TextRange(_, _, _)
TextRange(tokens, lo, hi) ==
    IF lo > hi THEN ""
    ELSE IF lo = hi THEN tokens[lo]
    ELSE LET mid == (lo + hi) \div 2
         IN TextRange(tokens, lo, mid) \o TextRange(tokens, mid + 1, hi)

\* the bytes of a token sequence
Text(tokens) == TextRange(tokens, 1, Len(tokens))

\* xml.Header without its trailing newline, and the newline
xmlHeader == "<?xml version=\"1.0\" encoding=\"UTF-8\"?>"

marshalPAYMENT(p) ==
    Element("PAYMENT", Leaf("PMTTYPE", p.PMTTYPE) \o Leaf("PMTAMOUNT", p.PMTAMOUNT))

marshalVATTOTAL(v) ==
    Element("VATTOTAL", Leaf("VATRATE", v.VATRATE) \o Leaf("NETTAMOUNT", v.NETTAMOUNT)
                        \o Leaf("TAXAMOUNT", v.TAXAMOUNT))

marshalITEM(i) ==
    Element("ITEM", Leaf("ID", i.ID) \o Leaf("DESC", i.DESC)
                    \o Leaf("QTY", XmlFloat(1000 * i.QTY))
                    \o Leaf("TAXCODE", ToString(i.TAXCODE))
                    \o Leaf("AMT", XmlFloat(i.AMT)))

marshalPAYMENTS(ps) ==
    Element("PAYMENTS", Flatten([k \in 1..Len(ps) |-> marshalPAYMENT(ps[k])]))

marshalVATTOTALS(vs) ==
    Element("VATTOTALS", Flatten([k \in 1..Len(vs) |-> marshalVATTOTAL(vs[k])]))

\* xml.Marshal of a models.RCT
marshalRCT(r) ==
    Element("RCT",
        Leaf("DATE", r.DATE) \o Leaf("TIME", r.TIME) \o Leaf("TIN", r.TIN)
        \o Leaf("REGID", r.REGID) \o Leaf("EFDSERIAL", r.EFDSERIAL)
        \o Leaf("CUSTIDTYPE", ToString(r.CUSTIDTYPE)) \o Leaf("CUSTID", r.CUSTID)
        \o Leaf("CUSTNAME", r.CUSTNAME) \o Leaf("MOBILENUM", r.MOBILENUM)
        \o Leaf("RCTNUM", r.RCTNUM) \o Leaf("DC", ToString(r.DC))
        \o Leaf("GC", ToString(r.GC)) \o Leaf("ZNUM", r.ZNUM)
        \o Leaf("RCTVNUM", r.RCTVNUM)
        \o Element("ITEMS", Flatten([k \in 1..Len(r.ITEMS) |-> marshalITEM(r.ITEMS[k])]))
        \o Element("TOTALS",
              Leaf("TOTALTAXEXCL", XmlFloat(r.TOTALS.TOTALTAXEXCL))
              \o Leaf("TOTALTAXINCL", XmlFloat(r.TOTALS.TOTALTAXINCL))
              \o Leaf("DISCOUNT", XmlFloat(r.TOTALS.DISCOUNT)))
        \o marshalPAYMENTS(r.PAYMENTS)
        \o marshalVATTOTALS(r.VATTOTALS))

\* xml.Marshal of a models.ZREPORT
marshalZREPORT(z) ==
    Element("ZREPORT",
        Leaf("DATE", z.DATE) \o Leaf("TIME", z.TIME)
        \o Element("HEADER", Flatten([k \in 1..Len(z.HEADER) |-> Leaf("LINE", z.HEADER[k])]))
        \o Leaf("VRN", z.VRN) \o Leaf("TIN", z.TIN) \o Leaf("TAXOFFICE", z.TAXOFFICE)
        \o Leaf("REGID", z.REGID) \o Leaf("ZNUMBER", z.ZNUMBER)
        \o Leaf("EFDSERIAL", z.EFDSERIAL)
        \o Leaf("REGISTRATIONDATE", z.REGISTRATIONDATE)
        \o Leaf("USER", z.USER) \o Leaf("SIMIMSI", z.SIMIMSI)
        \o Element("TOTALS",
              Leaf("DAILYTOTALAMOUNT", XmlFloat(z.TOTALS.DAILYTOTALAMOUNT))
              \o Leaf("GROSS", XmlFloat(z.TOTALS.GROSS))
              \o Leaf("CORRECTIONS", XmlFloat(z.TOTALS.CORRECTIONS))
              \o Leaf("DISCOUNTS", XmlFloat(z.TOTALS.DISCOUNTS))
              \o Leaf("SURCHARGES", XmlFloat(z.TOTALS.SURCHARGES))
              \o Leaf("TICKETSVOID", ToString(z.TOTALS.TICKETSVOID))
              \o Leaf("TICKETSVOIDTOTAL", XmlFloat(z.TOTALS.TICKETSVOIDTOTAL))
              \o Leaf("TICKETSFISCAL", ToString(z.TOTALS.TICKETSFISCAL))
              \o Leaf("TICKETSNONFISCAL", ToString(z.TOTALS.TICKETSNONFISCAL)))
        \o marshalVATTOTALS(z.VATTOTALS)
        \o marshalPAYMENTS(z.PAYMENTS)
        \o Element("CHANGES", Leaf("VATCHANGENUM", z.CHANGES.VATCHANGENUM)
                              \o Leaf("HEADCHANGENUM", z.CHANGES.HEADCHANGENUM))
        \o Leaf("ERRORS", z.ERRORS) \o Leaf("FWVERSION", z.FWVERSION)
        \o Leaf("FWCHECKSUM", z.FWCHECKSUM))

\* a slip that replaces the start tags only
stripWrappersStartTags(tokens) ==
    SelectSeq(tokens, LAMBDA t : t \notin {"<PAYMENT>", "<VATTOTAL>"})

\* strings.NewReplacer("<PAYMENT>", "", "</PAYMENT>", "", "<VATTOTAL>", "",
\* "</VATTOTAL>", "").Replace: encoding/xml escapes '<' in text, so the four
\* strings occur in a marshalled document as these tags only
stripWrappers(tokens) ==
    SelectSeq(tokens, LAMBDA t :
        t \notin {"<PAYMENT>", "</PAYMENT>", "<VATTOTAL>", "</VATTOTAL>"})

\* the document around a signed payload: "<EFDMS>%s<EFDMSSIGNATURE>%s
\* </EFDMSSIGNATURE></EFDMS>" after xml.Header
envelope(payload, base64Signature) ==
    <<xmlHeader, "\n", "<EFDMS>">> \o payload
        \o <<"<EFDMSSIGNATURE>", base64Signature, "</EFDMSSIGNATURE>", "</EFDMS>">>

---------------------------------------------------------------------------
(* receipt.go: the receipt document *)

\* (r *RCT) RoundOff: the three totals rounded to 2 decimals
rctRoundOff(r) ==
    [r EXCEPT !.TOTALS = [TOTALTAXEXCL |-> Round2(r.TOTALS.TOTALTAXEXCL),
                          TOTALTAXINCL |-> Round2(r.TOTALS.TOTALTAXINCL),
                          DISCOUNT |-> Round2(r.TOTALS.DISCOUNT)]]

\* generateReceipt, with the order in which ProcessItems ranged over its map
generateReceipt(params, customer, items, payments, order) ==
    LET rctPayments == [i \in 1..Len(payments) |->
                           [PMTTYPE |-> payments[i].Type,
                            PMTAMOUNT |-> Fmt2(payments[i].Amount)]]
        RESULTS == ProcessItems(items, order)
    IN rctRoundOff(
         [DATE |-> params.Date, TIME |-> params.Time, TIN |-> params.TIN,
          REGID |-> params.RegistrationID, EFDSERIAL |-> params.EFDSerial,
          CUSTIDTYPE |-> customer.Type, CUSTID |-> customer.ID,
          CUSTNAME |-> customer.Name, MOBILENUM |-> customer.Mobile,
          RCTNUM |-> params.ReceiptNum, DC |-> params.DailyCounter,
          GC |-> params.GlobalCounter, ZNUM |-> params.ZNum,
          RCTVNUM |-> params.ReceiptVNum, ITEMS |-> RESULTS.ITEMS,
          TOTALS |-> RESULTS.TOTALS, PAYMENTS |-> rctPayments,
          VATTOTALS |-> RESULTS.VATTOTALS])

\* a slip that signs the marshalled receipt and strips the wrapper tags
\* afterwards, for the envelope only
ReceiptBytesStripAfterSigning(privateKey, params, customer, items, payments, order) ==
    LET receipt == generateReceipt(params, customer, items, payments, order)
        receiptBytes == marshalRCT(receipt)
        signedReceipt == Sign(privateKey, Text(receiptBytes))
    IN IF signedReceipt.err # Nil
       THEN [out |-> Nil, err |-> "could not sign receipt: " \o signedReceipt.err,
             signed |-> Text(receiptBytes)]
       ELSE [out |-> envelope(stripWrappers(receiptBytes),
                              encodeBase64Bytes(signedReceipt.out)),
             err |-> Nil, signed |-> Text(receiptBytes)]

\* ReceiptBytes: the returned bytes and error, and the payload it handed to
\* Sign
ReceiptBytes(privateKey, params, customer, items, payments, order) ==
    LET receipt == generateReceipt(params, customer, items, payments, order)
        receiptBytes == stripWrappers(marshalRCT(receipt))
        signedReceipt == Sign(privateKey, Text(receiptBytes))
    IN IF signedReceipt.err # Nil
       THEN [out |-> Nil, err |-> "could not sign receipt: " \o signedReceipt.err,
             signed |-> Text(receiptBytes)]
       ELSE [out |-> envelope(receiptBytes, encodeBase64Bytes(signedReceipt.out)),
             err |-> Nil, signed |-> Text(receiptBytes)]

---------------------------------------------------------------------------
(* report.go: the Z report document *)

\* strings.ToUpper on the texts of the model: the address texts and the
\* payment names; any other text of the model has no lower case letter
ToUpper(str) ==
    CASE str = "Acme Traders" -> "ACME TRADERS"
      [] str = "Samora Avenue" -> "SAMORA AVENUE"
      [] str = "Dar es Salaam,Tanzania" -> "DAR ES SALAAM,TANZANIA"
      [] str = "cash" -> "CASH"
      [] str = "Cheque" -> "CHEQUE"
      [] str = "cCard" -> "CCARD"
      [] str = "eMoney" -> "EMONEY"
      [] str = "invoice" -> "INVOICE"
      [] str = "mpesa" -> "MPESA"
      [] OTHER -> str

\* (lines *Address) AsList
AsList(lines) ==
    <<ToUpper(lines.Name), ToUpper(lines.Street), "MOBILE: " \o lines.Mobile,
      ToUpper(lines.City \o "," \o lines.Country)>>

\* generateZReport: the call of RoundOff at its end is commented out
generateZReport(params, address, vats, payments, totals) ==
    [DATE |-> params.Date, TIME |-> params.Time, HEADER |-> AsList(address),
     VRN |-> params.VRN, TIN |-> params.TIN, TAXOFFICE |-> params.TaxOffice,
     REGID |-> params.RegistrationID, ZNUMBER |-> params.ZNumber,
     EFDSERIAL |-> params.EFDSerial, REGISTRATIONDATE |-> params.RegistrationDate,
     USER |-> params.UIN, SIMIMSI |-> "WEBAPI",
     TOTALS |-> [DAILYTOTALAMOUNT |-> totals.DailyTotalAmount,
                 GROSS |-> totals.Gross, CORRECTIONS |-> totals.Corrections,
                 DISCOUNTS |-> totals.Discounts, SURCHARGES |-> totals.Surcharges,
                 TICKETSVOID |-> totals.TicketsVoid,
                 TICKETSVOIDTOTAL |-> totals.TicketsVoidTotal,
                 TICKETSFISCAL |-> totals.TicketsFiscal,
                 TICKETSNONFISCAL |-> totals.TicketsNonFiscal],
     VATTOTALS |-> sumVatTotals(vats), PAYMENTS |-> sumPayments(payments),
     CHANGES |-> [VATCHANGENUM |-> "0", HEADCHANGENUM |-> "0"],
     ERRORS |-> "", FWVERSION |-> "3.0", FWCHECKSUM |-> "WEBAPI"]

\* regexp `<tag>.*</tag>` replaced by <tag>text</tag>: the document is one
\* line and holds the element once, so the match is that element
replaceElement(tokens, tag, text) ==
    [i \in 1..Len(tokens) |->
        IF i > 1 /\ i < Len(tokens) /\ tokens[i - 1] = "<" \o tag \o ">"
              /\ tokens[i + 1] = "</" \o tag \o ">"
        THEN text ELSE tokens[i]]

formatReportXmlPayload(payload, totals) ==
    replaceElement(
        replaceElement(stripWrappers(payload), "DAILYTOTALAMOUNT",
                       Fmt2(totals.DailyTotalAmount)),
        "GROSS", Fmt2(totals.Gross))

\* ReportBytes: the returned bytes and error, and the payload it handed to
\* SignPayload
ReportBytes(privateKey, params, address, vats, payments, totals) ==
    LET zReport == generateZReport(params, address, vats, payments, totals)
        payload == marshalZREPORT(zReport)
        payloadString == formatReportXmlPayload(payload, totals)
        signedPayload == SignPayload(privateKey, Text(payloadString))
    IN IF signedPayload.err # Nil
       THEN [out |-> Nil, err |-> "failed to sign the payload: " \o signedPayload.err,
             signed |-> Text(payloadString)]
       ELSE [out |-> envelope(payloadString, encodeBase64Bytes(signedPayload.out)),
             err |-> Nil, signed |-> Text(payloadString)]

---------------------------------------------------------------------------
(* error values and checkNetworkError *)

\* Go's nil error
NilError == [kind |-> "nil"]

\* context.Canceled and context.DeadlineExceeded
contextCanceled == [kind |-> "context.Canceled"]
contextDeadlineExceeded == [kind |-> "context.DeadlineExceeded"]

\* errors.New(text) or fmt.Errorf without %w
errorString(text) == [kind |-> "errorString", text |-> text]

\* fmt.Errorf(prefix + ": %w", err)
wrapError(prefix, err) == [kind |-> "wrapError", text |-> prefix, Err |-> err]

\* the *url.Error http.Client.Do returns around the cause of a failure
urlError(err) == [kind |-> "*url.Error", Err |-> err]

\* a *net.OpError of the transport (connection refused, reset, ...)
netOpError(text) == [kind |-> "*net.OpError", text |-> text]

\* &NetworkError{Err: err, Message: message}
NetworkError(err, message) == [kind |-> "*NetworkError", Err |-> err, Message |-> message]

\* err.(net.Error): the dynamic types with Timeout() and Temporary()
IsNetError(err) ==
    err.kind \in {"*url.Error", "*net.OpError", "context.DeadlineExceeded"}

\* (e) Unwrap(): the error kinds that wrap another
Unwraps(err) == err.kind \in {"wrapError", "*url.Error", "*NetworkError"}

\* IsNetworkError: errors.As(err, &netErr) along the Unwrap chain
RECURSIVE IsNetworkError(_)
IsNetworkError(err) ==
    IF err.kind = "*NetworkError" THEN TRUE
    ELSE IF Unwraps(err) THEN IsNetworkError(err.Err)
    ELSE FALSE

\* errors.Is(err, target) along the Unwrap chain
RECURSIVE ErrorsIs(_, _)
ErrorsIs(err, target) ==
    IF err = target THEN TRUE
    ELSE IF Unwraps(err) THEN ErrorsIs(err.Err, target)
    ELSE FALSE

\* a slip that leaves out the net.Error case
checkNetworkErrorContextOnly(ctxErr, prefix, err) ==
    IF err = NilError THEN NilError
    ELSE IF ctxErr # NilError \/ err = contextCanceled \/ err = contextDeadlineExceeded
    THEN NetworkError(ctxErr,
                      prefix \o ": context error (canceled or deadline exceeded)")
    ELSE wrapError(prefix, err)

\* checkNetworkError(ctx, prefix, err), with ctxErr the value of ctx.Err()
checkNetworkError(ctxErr, prefix, err) ==
    IF err = NilError THEN NilError
    ELSE IF ctxErr # NilError \/ err = contextCanceled \/ err = contextDeadlineExceeded
    THEN NetworkError(ctxErr,
                      prefix \o ": context error (canceled or deadline exceeded)")
    ELSE IF IsNetError(err)
    THEN NetworkError(err, prefix \o ": network error")
    ELSE wrapError(prefix, err)

---------------------------------------------------------------------------
(* receipt.go, report.go: the submission of a document *)

SubmitOps == {"submitReceipt", "submitReport"}

\* the prefix checkNetworkError is given
networkPrefix(op) == IF op = "submitReceipt" THEN "receipt upload" ELSE "submit report"

\* ErrReceiptUploadFailed, ErrReportSubmitFailed
uploadFailed(op) ==
    IF op = "submitReceipt" THEN "receipt upload failed" ELSE "report submit failed"

\* the element of the acknowledgment envelope the call reads: RCTACKEFDMS
\* holds an RCTACK, ReportAckEFDMS a ZACK
ackElement(op) == IF op = "submitReceipt" THEN "RCTACK" ELSE "ZACK"

SuccessCode == 0

IsSuccess(code) == code = SuccessCode

\* Go's nil *Response
NilResponse == [kind |-> "nil"]

\* &Response{Number: ..., Date: ..., Time: ..., Code: ..., Message: ...}
Response(ack) ==
    [kind |-> "*Response", Number |-> ack.NUM, Date |-> ack.DATE, Time |-> ack.TIME,
     Code |-> ack.ACKCODE, Message |-> ack.ACKMSG]

\* xml.NewDecoder(out).Decode(&errBody) into a models.Error: the root
\* element must be <Error>; text that holds no element ends in io.EOF
decodeError(out) ==
    IF out.root = "Error"
    THEN [Message |-> out.Message, err |-> NilError]
    ELSE IF out.root = "EFDMS"
    THEN [Message |-> "",
          err |-> errorString("expected element type <Error> but have <EFDMS>")]
    ELSE [Message |-> "", err |-> errorString("EOF")]

\* the zero value of an RCTACK or a ZACK
zeroAck == [NUM |-> 0, DATE |-> "", TIME |-> "", ACKCODE |-> 0, ACKMSG |-> ""]

\* xml.NewDecoder(out).Decode(&response) into an acknowledgment envelope:
\* the root element must be <EFDMS>; the fields of an element the envelope
\* does not hold keep their zero values
decodeAck(element, out) ==
    IF out.root = "EFDMS"
    THEN [ack |-> IF out.element = element
                  THEN [NUM |-> out.NUM, DATE |-> out.DATE, TIME |-> out.TIME,
                        ACKCODE |-> out.ACKCODE, ACKMSG |-> out.ACKMSG]
                  ELSE zeroAck,
          err |-> NilError]
    ELSE IF out.root = "Error"
    THEN [ack |-> zeroAck,
          err |-> errorString("expected element type <EFDMS> but have <Error>")]
    ELSE [ack |-> zeroAck, err |-> errorString("EOF")]

\* a slip that decodes the acknowledgment whatever the status
classifyResponseAckOnly(op, StatusCode, out) ==
    LET response == decodeAck(ackElement(op), out)
    IN IF response.err # NilError
       THEN [resp |-> NilResponse, err |-> wrapError(uploadFailed(op), response.err),
             decoded |-> {"EFDMS"}]
       ELSE [resp |-> Response(response.ack), err |-> NilError,
             decoded |-> {"EFDMS"}]

\* a slip that rejects a non-zero ack code inside the call
classifyResponseCheckingCode(op, StatusCode, out) ==
    IF StatusCode = 500
    THEN LET errBody == decodeError(out)
         IN IF errBody.err # NilError
            THEN [resp |-> NilResponse,
                  err |-> wrapError(uploadFailed(op), errBody.err),
                  decoded |-> {"Error"}]
            ELSE [resp |-> NilResponse,
                  err |-> errorString("registration error: " \o errBody.Message),
                  decoded |-> {"Error"}]
    ELSE LET response == decodeAck(ackElement(op), out)
         IN IF response.err # NilError
            THEN [resp |-> NilResponse,
                  err |-> wrapError(uploadFailed(op), response.err),
                  decoded |-> {"EFDMS"}]
            ELSE IF ~IsSuccess(response.ack.ACKCODE)
            THEN [resp |-> NilResponse,
                  err |-> errorString("registration error: " \o response.ack.ACKMSG),
                  decoded |-> {"EFDMS"}]
            ELSE [resp |-> Response(response.ack), err |-> NilError,
                  decoded |-> {"EFDMS"}]

\* submitReceipt and submitReport after io.ReadAll: the returned *Response
\* and error, and the envelopes Decode was called for
classifyResponse(op, StatusCode, out) ==
    IF StatusCode = 500
    THEN LET errBody == decodeError(out)
         IN IF errBody.err # NilError
            THEN [resp |-> NilResponse,
                  err |-> wrapError(uploadFailed(op), errBody.err),
                  decoded |-> {"Error"}]
            ELSE [resp |-> NilResponse,
                  err |-> errorString("registration error: " \o errBody.Message),
                  decoded |-> {"Error"}]
    ELSE LET response == decodeAck(ackElement(op), out)
         IN IF response.err # NilError
            THEN [resp |-> NilResponse,
                  err |-> wrapError(uploadFailed(op), response.err),
                  decoded |-> {"EFDMS"}]
            ELSE [resp |-> Response(response.ack), err |-> NilError,
                  decoded |-> {"EFDMS"}]

---------------------------------------------------------------------------
(* ParsePayment *)

CashPaymentType == "CASH"
CreditCardPaymentType == "CCARD"
ChequePaymentType == "CHEQUE"
InvoicePaymentType == "INVOICE"
ElectronicPaymentType == "EMONEY"

\* the inner switches of ParsePayment
paymentOfInt(valueInt) ==
    CASE valueInt = 1 -> CashPaymentType
      [] valueInt = 2 -> ChequePaymentType
      [] valueInt = 3 -> CreditCardPaymentType
      [] valueInt = 4 -> ElectronicPaymentType
      [] valueInt = 5 -> InvoicePaymentType
      [] OTHER -> CashPaymentType

paymentOfString(valueString) ==
    IF valueString \in {"CASH", "CHEQUE", "CCARD", "EMONEY", "INVOICE"}
    THEN valueString ELSE CashPaymentType

\* ParsePayment(value any): a value is its dynamic type and the number n or
\* the string s it holds.
\* In the case "int, int64" the switch variable keeps the type any, and the
\* assertion i.(int) that follows panics for a value that holds an int64.
ParsePayment(value) ==
    IF value.type \in {"int", "int64"}
    THEN IF value.type = "int"
         THEN [out |-> paymentOfInt(value.n), panic |-> Nil]
         ELSE [out |-> Nil,
               panic |-> "interface conversion: interface {} is int64, not int"]
    ELSE IF value.type = "string"
    THEN [out |-> paymentOfString(ToUpper(value.s)), panic |-> Nil]
    ELSE [out |-> CashPaymentType, panic |-> Nil]

---------------------------------------------------------------------------
(* RequestURL *)

DEV == "development"
TEST == "test"
STAGING == "staging"
PROD == "production"

RegisterClientAction == "register"
FetchTokenAction == "token"
SubmitReceiptAction == "receipt"
SubmitReportAction == "report"
ReceiptVerificationAction == "verification"

\* the URLs of the production environment, by field of the URL struct
productionURLs ==
    [Registration |-> "https://vfd.tra.go.tz/api/vfdRegReq",
     FetchToken |-> "https://vfd.tra.go.tz/vfdtoken",
     SubmitReceipt |-> "https://vfd.tra.go.tz/api/efdmsRctInfo",
     SubmitReport |-> "https://vfd.tra.go.tz/api/efdmszreport",
     VerifyReceipt |-> "https://verify.tra.go.tz/"]

\* the URLs of the testing environment
testingURLs ==
    [Registration |-> "https://virtual.tra.go.tz/efdmsRctApi/api/vfdRegReq",
     FetchToken |-> "https://virtual.tra.go.tz/efdmsRctApi/vfdtoken",
     SubmitReceipt |-> "https://virtual.tra.go.tz/efdmsRctApi/api/efdmsRctInfo",
     SubmitReport |-> "https://virtual.tra.go.tz/efdmsRctApi/api/efdmszreport",
     VerifyReceipt |-> "https://virtual.tra.go.tz/efdmsRctVerify/"]

\* RequestURL: the production URLs for env.PROD and the testing URLs for
\* every other environment, then the switch over the action
RequestURL(e, action) ==
    LET u == IF e = PROD THEN productionURLs ELSE testingURLs
    IN CASE action = RegisterClientAction -> u.Registration
         [] action = FetchTokenAction -> u.FetchToken
         [] action = SubmitReceiptAction -> u.SubmitReceipt
         [] action = SubmitReportAction -> u.SubmitReport
         [] action = ReceiptVerificationAction -> u.VerifyReceipt
         [] OTHER -> ""

---------------------------------------------------------------------------
(* Inputs *)

\* tax codes: the five recognized ones and unrecognized ones
TaxCodes == {-1, 0, 1, 2, 3, 4, 5, 9}

\* amounts handed to NetAmount / ValueAddedTaxAmount: every whole-cent
\* amount up to MaxCents cents, the amounts of the tests, and amounts that
\* are not whole cents
WholeCentAmounts == {10 * c : c \in 1..MaxCents} \cup {5000000, 10000000}
Amounts == WholeCentAmounts \cup {332, 664, 1658, 9999998}

IsWholeCents(a) == a % 10 = 0

\* id, quantity and unit price of a line: 5 x 2000.00 (the tests' line) and
\* 2 x 0.332 (an amount that is not a whole number of cents)
PriceLines == {<<"1", 5, 2000000>>, <<"2", 2, 332>>}

\* the items a caller may put on a receipt: tax codes of three categories
\* and an unrecognized one, no discount, a discount below a cent and the
\* tests' discount of 5000.00 (larger than the small line: the code accepts
\* a negative taxable amount)
Items ==
    {[ID |-> line[1], Description |-> "Item " \o line[1], TaxCode |-> code,
      Quantity |-> line[2], UnitPrice |-> line[3], Discount |-> d] :
        code \in {1, 2, 3, 9}, line \in PriceLines, d \in {0, 2, 5000000}}

SeqsUpTo(S, n) == UNION {[1..k -> S] : k \in 0..n}

ItemLists == SeqsUpTo(Items, MaxItems)

\* private keys: two sound key pairs, a key whose public half belongs to
\* another pair (a corrupted key) and a key rsa.SignPKCS1v15 refuses
PrivateKeys ==
    {[d |-> 1, PublicKey |-> 1, usable |-> TRUE],
     [d |-> 2, PublicKey |-> 2, usable |-> TRUE],
     [d |-> 2, PublicKey |-> 1, usable |-> TRUE],
     [d |-> 3, PublicKey |-> 3, usable |-> FALSE]}

PublicKeys == {k.PublicKey : k \in PrivateKeys}

\* payloads handed to Sign and SignPayload on their own
Payloads == {"", "<RCT><GC>100</GC></RCT>", "<RCT><GC>101</GC></RCT>"}

\* signature strings handed to VerifySignature: the encoding of every
\* signature Sign returns, and strings that are not base64
SignatureStrings ==
    {encodeBase64Bytes(Sign(k, p).out) :
        k \in {x \in PrivateKeys : \A q \in Payloads : Sign(x, q).err = Nil},
        p \in Payloads}
    \cup {"not base64!", "b64(", "rsa(1,sha1())"}

\* the VAT entries a caller may put in a report request: ids with and
\* without a category, the rates 18.00, 0.00 and 10.00
VatEntries ==
    {[ID |-> id, Rate |-> rate, NetAmount |-> amt[1], TaxAmount |-> amt[2]] :
        id \in {"A", "C", "E", "F"}, rate \in {18000, 0, 10000},
        amt \in {<<4237290, 762710>>, <<664, 120>>}}

VatLists == SeqsUpTo(VatEntries, MaxVats)

\* the payments a caller may supply: the five types and strings that are
\* none of them
ReportPayments ==
    {[Type |-> t, Amount |-> a] :
        t \in {"CASH", "CHEQUE", "CCARD", "EMONEY", "INVOICE", "cash", "MPESA"},
        a \in {5000000, 1252}}

PaymentLists == SeqsUpTo(ReportPayments, MaxPayments)

\* the documents' fixed inputs: the receipt of TestReceiptBytes
receiptParams ==
    [Date |-> "2022-11-17", Time |-> "14:00:00", TIN |-> "TQR6W5FWC",
     RegistrationID |-> "262T3FSSS", EFDSerial |-> "SGSYSTHSSJ", ReceiptNum |-> "",
     DailyCounter |-> 1, GlobalCounter |-> 100, ZNum |-> "", ReceiptVNum |-> ""]

receiptCustomer ==
    [Type |-> 5, ID |-> "516221638383907151", Name |-> "John doe",
     Mobile |-> "255765992153"]

reportParams ==
    [Date |-> "2022-11-17", Time |-> "23:59:00", VRN |-> "NOT REGISTERED",
     TIN |-> "TQR6W5FWC", UIN |-> "09VFDWEBAPI", TaxOffice |-> "Ilala",
     RegistrationID |-> "262T3FSSS", ZNumber |-> "20221117",
     EFDSerial |-> "SGSYSTHSSJ", RegistrationDate |-> "2022-01-01"]

reportAddress ==
    [Name |-> "Acme Traders", Street |-> "Samora Avenue", Mobile |-> "255765992153",
     City |-> "Dar es Salaam", Country |-> "Tanzania"]

\* the keys a document is signed with: a sound one, the corrupted one and
\* the refused one
DocKeys == {k \in PrivateKeys : k.PublicKey # 2}

\* the items of a receipt document: the tests' line, standard rated and
\* zero rated, with and without the tests' discount
DocItems ==
    {i \in Items : /\ i.ID = "1" /\ i.TaxCode \in {1, 3} /\ i.Quantity = 5
                   /\ i.Discount \in {0, 5000000}}

DocItemLists == SeqsUpTo(DocItems, MaxItems)

\* the payments of a document
DocPayments == {[Type |-> "CASH", Amount |-> 5000000], [Type |-> "EMONEY", Amount |-> 1252]}

DocPaymentLists == SeqsUpTo(DocPayments, MaxDocPayments)

\* the VAT entries of a report document
DocVats ==
    {v \in VatEntries : v.NetAmount = 4237290 /\ v.ID \in {"A", "C"} /\ v.Rate # 10000}

DocVatLists == SeqsUpTo(DocVats, MaxVats)

\* the totals of a report: whole amounts, and amounts with three decimals
ReportTotalsSet ==
    {[DailyTotalAmount |-> 5000000, Gross |-> 10000000, Corrections |-> 0,
      Discounts |-> 5000000, Surcharges |-> 0, TicketsVoid |-> 0,
      TicketsVoidTotal |-> 0, TicketsFiscal |-> 1, TicketsNonFiscal |-> 0],
     [DailyTotalAmount |-> 1252, Gross |-> 1254, Corrections |-> 2,
      Discounts |-> 10006, Surcharges |-> 332, TicketsVoid |-> 1,
      TicketsVoidTotal |-> 664, TicketsFiscal |-> 2, TicketsNonFiscal |-> 1]}

\* the codes handed to ParseTaxCode and ReportTaxRateID on their own: the
\* five codes, 0, negative codes and codes above 5
ParsedCodes == TaxCodes \cup {-7, 6, 18, 100}

\* the values handed to ParsePayment: ints and int64s inside and outside
\* 1..5, the five names in upper, lower and mixed case, unknown names, and
\* values of other types
PaymentValues ==
    {[type |-> t, n |-> n] : t \in {"int", "int64"}, n \in {-1, 0, 1, 2, 3, 4, 5, 6}}
    \cup {[type |-> "string", s |-> str] :
             str \in {"CASH", "CHEQUE", "CCARD", "EMONEY", "INVOICE", "cash",
                      "Cheque", "cCard", "eMoney", "invoice", "mpesa", "MPESA", ""}}
    \cup {[type |-> "float64"], [type |-> "bool"], [type |-> "nil"]}

\* the environments handed to RequestURL: the four the env package
\* declares, and strings that are none of them
Envs == {DEV, TEST, STAGING, PROD, "qa", ""}

\* the actions handed to RequestURL: the five declared, and strings that
\* are none of them
Actions ==
    {RegisterClientAction, FetchTokenAction, SubmitReceiptAction,
     SubmitReportAction, ReceiptVerificationAction, "refund", ""}

\* the values of ctx.Err(): nil while the context is live
ContextErrors == {NilError, contextCanceled, contextDeadlineExceeded}

\* the errors http.Client.Do returns: a *url.Error around the context's
\* error or around a failure of the transport
DoErrors ==
    {urlError(contextCanceled), urlError(contextDeadlineExceeded),
     urlError(netOpError("dial tcp: connection refused")),
     urlError(errorString("unsupported protocol scheme"))}

\* the errors checkNetworkError may be handed: nil, the errors of Do, the
\* bare context errors, a bare net.Error and errors that are none of these
CheckedErrors ==
    DoErrors \cup {NilError, contextCanceled, contextDeadlineExceeded,
                   netOpError("read: connection reset by peer"),
                   errorString("unexpected EOF"),
                   wrapError("read body", errorString("unexpected EOF"))}

\* the request URLs of a submission: a URL http.NewRequestWithContext
\* accepts and one it cannot parse
RequestURLs == {"https://vfd.tra.go.tz/api/efdmsRctInfo", "://vfd.tra.go.tz"}

\* the error of http.NewRequestWithContext for a request URL
newRequestError(requestURL) ==
    IF requestURL = "://vfd.tra.go.tz"
    THEN urlError(errorString("missing protocol scheme"))
    ELSE NilError

\* the receipt and the report a submission sends: the receipt of
\* TestReceiptBytes and a report of one VAT entry and one payment
submitItems ==
    <<[ID |-> "1", Description |-> "Item 1", TaxCode |-> TaxableItemCode,
       Quantity |-> 5, UnitPrice |-> 2000000, Discount |-> 5000000]>>

submitPayments == <<[Type |-> "CASH", Amount |-> 5000000]>>

submitVats ==
    <<[ID |-> "A", Rate |-> 18000, NetAmount |-> 4237290, TaxAmount |-> 762710]>>

submitTotals ==
    [DailyTotalAmount |-> 5000000, Gross |-> 10000000, Corrections |-> 0,
     Discounts |-> 5000000, Surcharges |-> 0, TicketsVoid |-> 0,
     TicketsVoidTotal |-> 0, TicketsFiscal |-> 1, TicketsNonFiscal |-> 0]

\* the HTTP statuses the server answers with
StatusCodes == {200, 400, 500}

\* the bodies the server answers with: the authority's error envelope,
\* acknowledgment envelopes of a receipt and of a report with a zero and a
\* non-zero ack code, and text that is no XML element
ResponseBodies ==
    {[root |-> "Error", Message |-> "Invalid TIN"], [root |-> "text"]}
    \cup {[root |-> "EFDMS", element |-> e, NUM |-> 100, DATE |-> "2022-11-17",
           TIME |-> "14:00:05", ACKCODE |-> c[1], ACKMSG |-> c[2]] :
             e \in {"RCTACK", "ZACK"},
             c \in {<<0, "Success">>, <<7, "Invalid client header">>}}

\* the errors io.ReadAll(resp.Body) returns: a broken connection, and the
\* context's error when the context ends during the read
ReadErrors == {errorString("unexpected EOF"), contextCanceled, contextDeadlineExceeded}

---------------------------------------------------------------------------
(* Actions *)

Init == call = [op |-> "none"]

\* a caller splits an amount with NetAmount and ValueAddedTaxAmount
SplitAmount ==
    /\ call.op = "none"
    /\ \E code \in TaxCodes, a \in Amounts :
        call' = [op |-> "SplitAmount", code |-> code, amount |-> a,
                 net |-> NetAmount(code, a),
                 tax |-> ValueAddedTaxAmount(code, a)]

\* a caller runs ProcessItems on an item list
CallProcessItems ==
    /\ call.op = "none"
    /\ \E items \in ItemLists :
         \E order \in MapOrders(DOMAIN itemsLoop(items).vatTotals) :
            call' = [op |-> "ProcessItems", items |-> items,
                     out |-> ProcessItems(items, order)]

\* a caller signs a payload with Sign
CallSign ==
    /\ call.op = "none"
    /\ \E key \in PrivateKeys, payload \in Payloads :
         \E r \in {Sign(key, payload)} :
            call' = [op |-> "Sign", key |-> key, payload |-> payload,
                     sig |-> r.out, err |-> r.err]

\* a caller signs a payload with SignPayload
CallSignPayload ==
    /\ call.op = "none"
    /\ \E key \in PrivateKeys, payload \in Payloads :
         \E r \in {SignPayload(key, payload)} :
            call' = [op |-> "SignPayload", key |-> key, payload |-> payload,
                     sig |-> r.out, err |-> r.err]

\* a caller verifies a signature string over a payload
CallVerifySignature ==
    /\ call.op = "none"
    /\ \E pub \in PublicKeys, payload \in Payloads, signature \in SignatureStrings :
         call' = [op |-> "VerifySignature", pub |-> pub, payload |-> payload,
                  signature |-> signature,
                  err |-> VerifySignature(pub, payload, signature)]

\* the report path sums the supplied VAT entries
CallSumVatTotals ==
    /\ call.op = "none"
    /\ \E vats \in VatLists :
         call' = [op |-> "sumVatTotals", vats |-> vats, out |-> sumVatTotals(vats)]

\* the report path sums the supplied payments
CallSumPayments ==
    /\ call.op = "none"
    /\ \E payments \in PaymentLists :
         call' = [op |-> "sumPayments", payments |-> payments,
                  out |-> sumPayments(payments)]

\* a caller builds the signed bytes of a receipt
CallReceiptBytes ==
    /\ call.op = "none"
    /\ \E key \in DocKeys, items \in DocItemLists, payments \in DocPaymentLists :
         \E order \in MapOrders(DOMAIN itemsLoop(items).vatTotals) :
            \E r \in {ReceiptBytes(key, receiptParams, receiptCustomer, items,
                                   payments, order)} :
               call' = [op |-> "ReceiptBytes", key |-> key, items |-> items,
                        payments |-> payments, out |-> r.out, err |-> r.err,
                        signed |-> r.signed]

\* a caller builds the signed bytes of a Z report
CallReportBytes ==
    /\ call.op = "none"
    /\ \E key \in DocKeys, vats \in DocVatLists, payments \in DocPaymentLists,
          totals \in ReportTotalsSet :
            \E r \in {ReportBytes(key, reportParams, reportAddress, vats, payments,
                                  totals)} :
               call' = [op |-> "ReportBytes", key |-> key, vats |-> vats,
                        payments |-> payments, totals |-> totals, out |-> r.out,
                        err |-> r.err, signed |-> r.signed]

\* a caller runs ProcessItems twice on the same item list: each call ranges
\* over a vatTotals map of its own, in an order of its own
CallProcessItemsTwice ==
    /\ call.op = "none"
    /\ \E items \in DocItemLists :
         \E order1, order2 \in MapOrders(DOMAIN itemsLoop(items).vatTotals) :
            call' = [op |-> "ProcessItemsTwice", items |-> items,
                     first |-> ProcessItems(items, order1),
                     second |-> ProcessItems(items, order2)]

\* checkNetworkError classifies an error under a context
CallCheckNetworkError ==
    /\ call.op = "none"
    /\ \E ctxErr \in ContextErrors, err \in CheckedErrors :
         call' = [op |-> "checkNetworkError", ctxErr |-> ctxErr, err |-> err,
                  out |-> checkNetworkError(ctxErr, "receipt upload", err)]

\* a slip that hands the request to the HTTP client before looking at the
\* error of the document's construction
SubmitCallSendingFirst ==
    /\ call.op = "none"
    /\ \E op \in SubmitOps, key \in DocKeys, requestURL \in RequestURLs,
          ctxErr \in ContextErrors :
         \E payload \in
               {IF op = "submitReceipt"
                THEN ReceiptBytes(key, receiptParams, receiptCustomer, submitItems,
                                  submitPayments, <<"A">>)
                ELSE ReportBytes(key, reportParams, reportAddress, submitVats,
                                 submitPayments, submitTotals)} :
            LET start == [op |-> op, pc |-> "done", key |-> key,
                          payloadErr |-> payload.err,
                          requestURL |-> requestURL, ctxErr |-> ctxErr,
                          cancelledAt |-> IF ctxErr = NilError THEN "" ELSE "before",
                          requests |->
                             IF newRequestError(requestURL) = NilError THEN 1 ELSE 0,
                          doErr |-> NilError, StatusCode |-> 0,
                          out |-> [root |-> ""], resp |-> NilResponse,
                          err |-> NilError, decoded |-> {}]
            IN call' =
                 IF payload.err # Nil
                 THEN [start EXCEPT !.err =
                          wrapError(IF op = "submitReceipt" THEN uploadFailed(op)
                                    ELSE "failed to generate the report payload",
                                    errorString(payload.err))]
                 ELSE IF newRequestError(requestURL) # NilError
                 THEN [start EXCEPT !.err = newRequestError(requestURL)]
                 ELSE [start EXCEPT !.pc = "Do"]

\* submitReceipt / submitReport up to client.Do: the document is built and
\* signed, the request is made and handed to the HTTP client.  The caller's
\* context may have ended before the call.
SubmitCall ==
    /\ call.op = "none"
    /\ \E op \in SubmitOps, key \in DocKeys, requestURL \in RequestURLs,
          ctxErr \in ContextErrors :
         \E payload \in
               {IF op = "submitReceipt"
                THEN ReceiptBytes(key, receiptParams, receiptCustomer, submitItems,
                                  submitPayments, <<"A">>)
                ELSE ReportBytes(key, reportParams, reportAddress, submitVats,
                                 submitPayments, submitTotals)} :
            LET start == [op |-> op, pc |-> "done", key |-> key,
                          payloadErr |-> payload.err,
                          requestURL |-> requestURL, ctxErr |-> ctxErr,
                          cancelledAt |-> IF ctxErr = NilError THEN "" ELSE "before",
                          requests |-> 0, doErr |-> NilError, StatusCode |-> 0,
                          out |-> [root |-> ""], resp |-> NilResponse,
                          err |-> NilError, decoded |-> {}]
            IN call' =
                 IF payload.err # Nil
                 THEN [start EXCEPT !.err =
                          wrapError(IF op = "submitReceipt" THEN uploadFailed(op)
                                    ELSE "failed to generate the report payload",
                                    errorString(payload.err))]
                 ELSE IF newRequestError(requestURL) # NilError
                 THEN [start EXCEPT !.err = newRequestError(requestURL)]
                 ELSE [start EXCEPT !.pc = "Do", !.requests = 1]

\* a slip that returns a failure of client.Do like the other failures
DoFailsUnclassified ==
    /\ call.op \in SubmitOps
    /\ call.pc = "Do"
    /\ \E ctxErr \in ContextErrors, err \in DoErrors :
         /\ call.ctxErr # NilError => ctxErr = call.ctxErr
         /\ err.Err \in {contextCanceled, contextDeadlineExceeded} => err.Err = ctxErr
         /\ call' = [call EXCEPT
                !.pc = "done", !.ctxErr = ctxErr, !.doErr = err,
                !.cancelledAt = IF call.ctxErr = NilError /\ ctxErr # NilError
                                THEN "Do" ELSE @,
                !.err = wrapError(uploadFailed(call.op), err)]

\* a slip that sends the document again after a failure of client.Do
DoFailsRetry ==
    /\ call.op \in SubmitOps
    /\ call.pc = "Do"
    /\ \E ctxErr \in ContextErrors, err \in DoErrors :
         /\ call.ctxErr # NilError => ctxErr = call.ctxErr
         /\ err.Err \in {contextCanceled, contextDeadlineExceeded} => err.Err = ctxErr
         /\ call' = IF call.requests < 2
                     THEN [call EXCEPT !.requests = @ + 1]
                     ELSE [call EXCEPT
                        !.pc = "done", !.ctxErr = ctxErr, !.doErr = err,
                        !.cancelledAt = IF call.ctxErr = NilError /\ ctxErr # NilError
                                        THEN "Do" ELSE @,
                        !.err = checkNetworkError(ctxErr, networkPrefix(call.op), err)]

\* client.Do returns an error: the context ended while the request was in
\* flight (or had ended before) and Do returns the context's error, or the
\* transport failed; the call returns checkNetworkError's result
DoFails ==
    /\ call.op \in SubmitOps
    /\ call.pc = "Do"
    /\ \E ctxErr \in ContextErrors, err \in DoErrors :
         /\ call.ctxErr # NilError => ctxErr = call.ctxErr
         /\ err.Err \in {contextCanceled, contextDeadlineExceeded} => err.Err = ctxErr
         /\ call' = [call EXCEPT
                !.pc = "done", !.ctxErr = ctxErr, !.doErr = err,
                !.cancelledAt = IF call.ctxErr = NilError /\ ctxErr # NilError
                                THEN "Do" ELSE @,
                !.err = checkNetworkError(ctxErr, networkPrefix(call.op), err)]

\* client.Do returns the server's response: the call goes on to read its body
DoResponds ==
    /\ call.op \in SubmitOps
    /\ call.pc = "Do"
    /\ call.ctxErr = NilError
    /\ \E StatusCode \in StatusCodes :
         call' = [call EXCEPT !.pc = "ReadAll", !.StatusCode = StatusCode]

\* io.ReadAll(resp.Body) fails: the call returns the error wrapped
ReadAllFails ==
    /\ call.op \in SubmitOps
    /\ call.pc = "ReadAll"
    /\ \E err \in ReadErrors :
         call' = [call EXCEPT
            !.pc = "done",
            !.ctxErr = IF err \in ContextErrors THEN err ELSE @,
            !.cancelledAt = IF err \in ContextErrors THEN "ReadAll" ELSE @,
            !.err = wrapError(uploadFailed(call.op), err)]

\* io.ReadAll(resp.Body) returns the body: the call decodes it and returns
ReadAllReturns ==
    /\ call.op \in SubmitOps
    /\ call.pc = "ReadAll"
    /\ \E out \in ResponseBodies :
         \E r \in {classifyResponse(call.op, call.StatusCode, out)} :
            call' = [call EXCEPT !.pc = "done", !.out = out, !.resp = r.resp,
                                 !.err = r.err, !.decoded = r.decoded]

\* a caller resolves a tax code
CallParseTaxCode ==
    /\ call.op = "none"
    /\ \E code \in ParsedCodes :
         call' = [op |-> "ParseTaxCode", code |-> code, out |-> ParseTaxCode(code)]

\* a caller parses a payment identifier
CallParsePayment ==
    /\ call.op = "none"
    /\ \E value \in PaymentValues :
         \E r \in {ParsePayment(value)} :
            call' = [op |-> "ParsePayment", value |-> value, out |-> r.out,
                     panic |-> r.panic]

\* a caller asks for the report key of a tax code
CallReportTaxRateID ==
    /\ call.op = "none"
    /\ \E code \in ParsedCodes :
         call' = [op |-> "ReportTaxRateID", code |-> code,
                  out |-> ReportTaxRateID(code)]

\* a caller asks for the URL of an action in an environment
CallRequestURL ==
    /\ call.op = "none"
    /\ \E e \in Envs, action \in Actions :
         call' = [op |-> "RequestURL", e |-> e, action |-> action,
                  out |-> RequestURL(e, action)]

\* the call returns and the caller is free to make the next one
Return ==
    /\ call.op # "none"
    /\ call.op \in SubmitOps => call.pc = "done"
    /\ call' = [op |-> "none"]

Next ==
    \/ SplitAmount
    \/ CallProcessItems
    \/ CallSign
    \/ CallSignPayload
    \/ CallVerifySignature
    \/ CallSumVatTotals
    \/ CallSumPayments
    \/ CallReceiptBytes
    \/ CallReportBytes
    \/ CallProcessItemsTwice
    \/ CallCheckNetworkError
    \/ SubmitCall
    \/ DoFails
    \/ DoResponds
    \/ ReadAllFails
    \/ ReadAllReturns
    \/ CallParseTaxCode
    \/ CallParsePayment
    \/ CallReportTaxRateID
    \/ CallRequestURL
    \/ Return

Spec == Init /\ [][Next]_vars

---------------------------------------------------------------------------
(* Claims *)

\* C1: for every tax code and every positive whole-cent amount a,
\* NetAmount(code, a) + ValueAddedTaxAmount(code, a) = a, with NetAmount the
\* 2-decimal rounding of a / (1 + rate/100).
C1_NetPlusTaxReconstructs ==
    (call.op = "SplitAmount" /\ call.amount > 0 /\ IsWholeCents(call.amount)) =>
        /\ call.net + call.tax = call.amount
        /\ IsWholeCents(call.net)
        /\ LET r == ParseTaxCode(call.code).Percentage
           IN \* net is the cent nearest to a / (1 + rate/100)
              \* |net/10 - amount*10/(100+r)| <= 1/2 in cents
              2 * Abs((call.net \div 10) * (100 + r) - call.amount * 10)
                  <= 100 + r

\* a standard-rated whole-cent amount whose net part is not a whole number
\* of cents before rounding has been split
C1_Witness ==
    /\ call.op = "SplitAmount"
    /\ call.code = 1
    /\ call.amount = 5000000
    /\ call.net = 4237290
    /\ call.tax = 762710

---------------------------------------------------------------------------
(* Sums the claims about ProcessItems are stated with *)

RECURSIVE SumSeq(_)
SumSeq(q) == IF q = <<>> THEN 0 ELSE q[1] + SumSeq(Tail(q))

\* quantity x unitPrice - discount of an item
TaxableAmount(item) == item.Quantity * item.UnitPrice - item.Discount

\* the positions of the items whose tax code resolves to category id
ItemsOfCategory(items, id) ==
    {i \in 1..Len(items) : ParseTaxCode(items[i].TaxCode).ID = id}

\* the sum over the items of category id of the per-item rounded net amount
CategoryNet(items, id) ==
    SumSeq([i \in 1..Len(items) |->
        IF i \in ItemsOfCategory(items, id)
        THEN NetAmount(items[i].TaxCode, TaxableAmount(items[i])) ELSE 0])

\* the same sum of the per-item rounded tax amount
CategoryTax(items, id) ==
    SumSeq([i \in 1..Len(items) |->
        IF i \in ItemsOfCategory(items, id)
        THEN ValueAddedTaxAmount(items[i].TaxCode, TaxableAmount(items[i]))
        ELSE 0])

CategoryIDs == {"A", "B", "C", "D", "E"}

\* the position of the first token t of a document
IndexOf(tokens, t) ==
    CHOOSE i \in 1..Len(tokens) :
        tokens[i] = t /\ \A j \in 1..(i - 1) : tokens[j] # t

\* the bytes of a document between its "<EFDMS>" and "<EFDMSSIGNATURE>"
SignedRegion(doc) ==
    Text(SubSeq(doc, IndexOf(doc, "<EFDMS>") + 1, IndexOf(doc, "<EFDMSSIGNATURE>") - 1))

\* C2: in ReceiptBytes and in ReportBytes the bytes handed to the signer are
\* the bytes embedded between "<EFDMS>" and "<EFDMSSIGNATURE>" in the
\* returned envelope: the XML declaration, the envelope tags and the base64
\* signature are added around the signed payload, which is not changed.
C2_SignedBytesAreEmbeddedBytes ==
    (call.op \in {"ReceiptBytes", "ReportBytes"} /\ call.err = Nil) =>
        /\ SignedRegion(call.out) = call.signed
        /\ call.out[1] = xmlHeader
        /\ call.out[3] = "<EFDMS>"
        /\ SubSeq(call.out, Len(call.out) - 1, Len(call.out))
             = <<"</EFDMSSIGNATURE>", "</EFDMS>">>
        /\ VerifySignature(call.key.PublicKey, SignedRegion(call.out),
                           call.out[Len(call.out) - 2]) = Nil

\* a receipt with two payments and VAT totals of two categories was signed
\* and wrapped
C2_Witness ==
    /\ call.op = "ReceiptBytes"
    /\ call.err = Nil
    /\ Len(call.payments) = 2
    /\ Len(call.items) = 2
    /\ call.items[1].TaxCode # call.items[2].TaxCode
    /\ SignedRegion(call.out) = call.signed

\* C3: Sign and SignPayload return a signature only if it verifies against
\* the public half of the same key over the same payload; when signing
\* fails or the self-verification fails they return an error and a nil
\* signature.
C3_OnlyVerifiedSignaturesReturned ==
    call.op \in {"Sign", "SignPayload"} =>
        LET signed == rsaSignPKCS1v15(call.key, sha1(call.payload))
            verifies(sig) ==
                rsaVerifyPKCS1v15(call.key.PublicKey, sha1(call.payload), sig) = Nil
        IN /\ call.err = Nil => (call.sig # Nil /\ verifies(call.sig))
           /\ call.err # Nil => call.sig = Nil
           /\ (signed.err # Nil \/ ~verifies(signed.out)) => call.err # Nil

\* Sign was given a key whose public half belongs to another pair: the
\* signature it made does not verify and is not returned
C3_Witness ==
    /\ call.op = "Sign"
    /\ call.key.d # call.key.PublicKey
    /\ call.key.usable
    /\ call.err # Nil
    /\ call.sig = Nil

\* the key pairs and payloads whose signature, encoded, is the string
\* VerifySignature was given
SignedAs(signature) ==
    {kp \in PrivateKeys \X Payloads :
        /\ Sign(kp[1], kp[2]).err = Nil
        /\ signature = encodeBase64Bytes(Sign(kp[1], kp[2]).out)}

\* C4: VerifySignature(pub, payload, base64(Sign(priv, payload))) succeeds
\* when pub is the public key of priv; it returns an error when pub belongs
\* to another key pair, when the payload is not the signed one, and when the
\* signature string is not valid base64.
C4_VerifyAcceptsExactlyTheSignedPayload ==
    call.op = "VerifySignature" =>
        /\ \A kp \in SignedAs(call.signature) :
             /\ (call.pub = kp[1].PublicKey /\ call.payload = kp[2])
                    => call.err = Nil
             /\ call.pub # kp[1].PublicKey => call.err # Nil
             /\ call.payload # kp[2] => call.err # Nil
        /\ base64DecodeString(call.signature).err # Nil => call.err # Nil

\* a signature of one key pair over one payload was checked against the
\* public key of the other pair and refused
C4_Witness ==
    /\ call.op = "VerifySignature"
    /\ \E kp \in SignedAs(call.signature) :
         /\ kp[1].PublicKey = 1
         /\ call.pub = 2
         /\ call.payload = kp[2]
    /\ call.err # Nil

\* the supplied VAT entries whose key is the given one
VatsOfKey(vats, key) == {i \in 1..Len(vats) : vatKey(vats[i]) = key}

\* C5: sumVatTotals returns exactly five VAT totals in the order A-18.00,
\* B-0.00, C-0.00, D-0.00, E-0.00 for every input list; a category no entry
\* matches has net and tax 0.00, a matched one the sums of the net and of
\* the tax amounts of the entries that match it.
C5_FiveVatTotalsInFixedOrder ==
    call.op = "sumVatTotals" =>
        LET vats == call.vats
            out == call.out
        IN /\ Len(out) = 5
           /\ [i \in 1..5 |-> out[i].VATRATE]
                = <<"A-18.00", "B-0.00", "C-0.00", "D-0.00", "E-0.00">>
           /\ \A i \in 1..5 :
                LET hit == VatsOfKey(vats, out[i].VATRATE)
                IN /\ hit = {} => (out[i].NETTAMOUNT = "0.00" /\ out[i].TAXAMOUNT = "0.00")
                   /\ out[i].NETTAMOUNT =
                        Fmt2(SumSeq([j \in 1..Len(vats) |->
                            IF j \in hit THEN vats[j].NetAmount ELSE 0]))
                   /\ out[i].TAXAMOUNT =
                        Fmt2(SumSeq([j \in 1..Len(vats) |->
                            IF j \in hit THEN vats[j].TaxAmount ELSE 0]))

\* two entries of category A and none of the others were summed
C5_Witness ==
    /\ call.op = "sumVatTotals"
    /\ Len(call.vats) = 2
    /\ VatsOfKey(call.vats, "A-18.00") = {1, 2}
    /\ call.out[1] = [VATRATE |-> "A-18.00", NETTAMOUNT |-> "8474.58",
                      TAXAMOUNT |-> "1525.42"]
    /\ call.out[3] = [VATRATE |-> "C-0.00", NETTAMOUNT |-> "0.00",
                      TAXAMOUNT |-> "0.00"]

\* C6: sumPayments returns exactly five payment totals in the order CASH,
\* CHEQUE, CCARD, EMONEY, INVOICE for every input list; each holds the sum
\* of the amounts of the supplied payments of that type, 0.00 when there is
\* none.
C6_FivePaymentsInFixedOrder ==
    call.op = "sumPayments" =>
        LET payments == call.payments
            out == call.out
        IN /\ Len(out) = 5
           /\ [i \in 1..5 |-> out[i].PMTTYPE]
                = <<"CASH", "CHEQUE", "CCARD", "EMONEY", "INVOICE">>
           /\ \A i \in 1..5 :
                LET hit == {j \in 1..Len(payments) :
                                payments[j].Type = out[i].PMTTYPE}
                IN /\ hit = {} => out[i].PMTAMOUNT = "0.00"
                   /\ out[i].PMTAMOUNT =
                        Fmt2(SumSeq([j \in 1..Len(payments) |->
                            IF j \in hit THEN payments[j].Amount ELSE 0]))

\* two CCARD payments and one EMONEY payment were summed
C6_Witness ==
    /\ call.op = "sumPayments"
    /\ Len(call.payments) = 3
    /\ call.payments[1].Type = "CCARD"
    /\ call.payments[2].Type = "EMONEY"
    /\ call.payments[3].Type = "CCARD"
    /\ call.out[3].PMTAMOUNT = "5001.25"
    /\ call.out[4].PMTAMOUNT = "5000.00"
    /\ call.out[1].PMTAMOUNT = "0.00"

\* C7: ProcessItems emits exactly one VAT total per category that some
\* item's tax code resolves to and none for any other category; the entry
\* of a category holds the sum of the rounded net amounts and the sum of
\* the rounded tax amounts of the items of that category.
C7_OneVatTotalPerTouchedCategory ==
    call.op = "ProcessItems" =>
        LET V == call.out.VATTOTALS
            items == call.items
        IN /\ \A k \in 1..Len(V) : V[k].VATRATE \in CategoryIDs
           /\ \A id \in CategoryIDs :
                LET entries == {k \in 1..Len(V) : V[k].VATRATE = id}
                IN IF ItemsOfCategory(items, id) = {}
                   THEN entries = {}
                   ELSE /\ Cardinality(entries) = 1
                        /\ \A k \in entries :
                             /\ V[k].NETTAMOUNT = Fmt2(CategoryNet(items, id))
                             /\ V[k].TAXAMOUNT = Fmt2(CategoryTax(items, id))

\* two items of the same category and the sum of their amounts in the one
\* entry emitted
C7_Witness ==
    /\ call.op = "ProcessItems"
    /\ Len(call.items) = 2
    /\ call.items[1].TaxCode = 1
    /\ call.items[2].TaxCode = 9
    /\ TaxableAmount(call.items[1]) = 5000000
    /\ TaxableAmount(call.items[2]) = 10000000
    /\ call.out.VATTOTALS =
         <<[VATRATE |-> "A", NETTAMOUNT |-> "12711.87", TAXAMOUNT |-> "2288.13"]>>

\* C8: the totals ProcessItems returns are the sum of the discounts, the
\* sum of quantity x unitPrice - discount and the sum of NetAmount(taxCode,
\* quantity x unitPrice - discount) over the items, none of them rounded.
C8_TotalsAreUnroundedSums ==
    call.op = "ProcessItems" =>
        LET items == call.items
            T == call.out.TOTALS
        IN /\ T.DISCOUNT = SumSeq([i \in 1..Len(items) |-> items[i].Discount])
           /\ T.TOTALTAXINCL =
                SumSeq([i \in 1..Len(items) |-> TaxableAmount(items[i])])
           /\ T.TOTALTAXEXCL =
                SumSeq([i \in 1..Len(items) |->
                    NetAmount(items[i].TaxCode, TaxableAmount(items[i]))])

\* totals over two items that are not whole numbers of cents are returned
\* as they are
C8_Witness ==
    /\ call.op = "ProcessItems"
    /\ Len(call.items) = 2
    /\ ~IsWholeCents(call.out.TOTALS.DISCOUNT)
    /\ ~IsWholeCents(call.out.TOTALS.TOTALTAXINCL)
    /\ call.out.TOTALS.DISCOUNT = 4
    /\ call.out.TOTALS.TOTALTAXINCL = 1324

\* the item of the tests: standard rated, 5 x 2000.00
IsTestItem(item, discount) ==
    /\ ParseTaxCode(item.TaxCode).ID = "A"
    /\ item.Quantity = 5
    /\ item.UnitPrice = 2000000
    /\ item.Discount = discount

\* C9: a single standard-rated item 5 x 2000 with discount 5000 gives
\* category A net 4237.29 and tax 762.71, discount total 5000.00,
\* tax-inclusive total 5000.00 and tax-exclusive total 4237.29; with
\* discount 0 it gives net 8474.58, tax 1525.42 and tax-inclusive total
\* 10000.00.
C9_TestItemValues ==
    (call.op = "ProcessItems" /\ Len(call.items) = 1) =>
        /\ IsTestItem(call.items[1], 5000000) =>
             /\ call.out.VATTOTALS =
                  <<[VATRATE |-> "A", NETTAMOUNT |-> "4237.29",
                     TAXAMOUNT |-> "762.71"]>>
             /\ call.out.TOTALS =
                  [TOTALTAXEXCL |-> 4237290, TOTALTAXINCL |-> 5000000,
                   DISCOUNT |-> 5000000]
        /\ IsTestItem(call.items[1], 0) =>
             /\ call.out.VATTOTALS =
                  <<[VATRATE |-> "A", NETTAMOUNT |-> "8474.58",
                     TAXAMOUNT |-> "1525.42"]>>
             /\ call.out.TOTALS.TOTALTAXINCL = 10000000
             /\ call.out.TOTALS.TOTALTAXEXCL = 8474580
             /\ call.out.TOTALS.DISCOUNT = 0

\* ProcessItems has run on the tests' item with discount 5000
C9_Witness ==
    /\ call.op = "ProcessItems"
    /\ Len(call.items) = 1
    /\ call.items[1].TaxCode = TaxableItemCode
    /\ IsTestItem(call.items[1], 5000000)
    /\ call.out.TOTALS.TOTALTAXEXCL = 4237290

\* C10: ProcessItems returns one rendered item per input item, in input
\* order, with the input's id, description, quantity and tax code and the
\* gross amount quantity x unitPrice, whatever the discount.
C10_RenderedItemsCarryGrossAmount ==
    call.op = "ProcessItems" =>
        LET items == call.items
            R == call.out.ITEMS
        IN /\ Len(R) = Len(items)
           /\ \A i \in 1..Len(items) :
                /\ R[i].ID = items[i].ID
                /\ R[i].DESC = items[i].Description
                /\ R[i].QTY = items[i].Quantity
                /\ R[i].TAXCODE = items[i].TaxCode
                /\ R[i].AMT = items[i].Quantity * items[i].UnitPrice

\* two different discounted items rendered in order with their gross amounts
C10_Witness ==
    /\ call.op = "ProcessItems"
    /\ Len(call.items) = 2
    /\ call.items[1].ID = "2"
    /\ call.items[2].ID = "1"
    /\ call.items[1].Discount = 2
    /\ call.items[2].Discount = 5000000
    /\ call.out.ITEMS[1].ID = "2"
    /\ call.out.ITEMS[1].AMT = 664
    /\ call.out.ITEMS[2].ID = "1"
    /\ call.out.ITEMS[2].AMT = 10000000

\* C11: two calls of ProcessItems on the same item list return the
\* per-category VAT totals in the same order.
C11_VatTotalsOrderDeterministic ==
    call.op = "ProcessItemsTwice" =>
        call.first.VATTOTALS = call.second.VATTOTALS

---------------------------------------------------------------------------
(* The text of a document's fields *)

\* the text of the first leaf element <tag> of a document
LeafText(doc, tag) == doc[IndexOf(doc, "<" \o tag \o ">") + 1]

\* text is a rendering of the amount x: the shortest decimal of
\* encoding/xml or the fixed 2-decimal form
RendersAs(text, x) == text \in {XmlFloat(x), Fmt2(x)}

\* C12: every monetary field of the assembled document is rounded to 2
\* decimals before serialization: the three totals of a receipt, and the
\* daily total, gross, corrections, discounts, surcharges and void total of
\* a Z report are serialized as their rounded 2-decimal values.
C12_MonetaryFieldsRoundedBeforeSerialization ==
    /\ (call.op = "ReceiptBytes" /\ call.err = Nil) =>
          LET T == itemsLoop(call.items)
          IN /\ RendersAs(LeafText(call.out, "TOTALTAXEXCL"), Round2(T.TOTALTAXEXCLUSIVE))
             /\ RendersAs(LeafText(call.out, "TOTALTAXINCL"), Round2(T.TOTALTAXINCLUSIVE))
             /\ RendersAs(LeafText(call.out, "DISCOUNT"), Round2(T.DISCOUNT))
    /\ (call.op = "ReportBytes" /\ call.err = Nil) =>
          /\ RendersAs(LeafText(call.out, "DAILYTOTALAMOUNT"),
                       Round2(call.totals.DailyTotalAmount))
          /\ RendersAs(LeafText(call.out, "GROSS"), Round2(call.totals.Gross))
          /\ RendersAs(LeafText(call.out, "CORRECTIONS"),
                       Round2(call.totals.Corrections))
          /\ RendersAs(LeafText(call.out, "DISCOUNTS"), Round2(call.totals.Discounts))
          /\ RendersAs(LeafText(call.out, "SURCHARGES"),
                       Round2(call.totals.Surcharges))
          /\ RendersAs(LeafText(call.out, "TICKETSVOIDTOTAL"),
                       Round2(call.totals.TicketsVoidTotal))

\* the elements of the two documents that hold an amount of money
MoneyTags ==
    {"AMT", "TOTALTAXEXCL", "TOTALTAXINCL", "DISCOUNT", "PMTAMOUNT", "NETTAMOUNT",
     "TAXAMOUNT", "DAILYTOTALAMOUNT", "GROSS", "CORRECTIONS", "DISCOUNTS",
     "SURCHARGES", "TICKETSVOIDTOTAL"}

Digits == {"0", "1", "2", "3", "4", "5", "6", "7", "8", "9"}

\* text is a fixed 2-decimal number: digits, a point, two digits
IsTwoDecimal(text) ==
    LET n == Len(text)
        body == IF n > 0 /\ SubSeq(text, 1, 1) = "-" THEN 2 ELSE 1
    IN /\ n - body >= 3
       /\ SubSeq(text, n - 2, n - 2) = "."
       /\ \A i \in body..n : i # n - 2 => SubSeq(text, i, i) \in Digits

\* C13: every monetary value in the XML of ReceiptBytes and ReportBytes is a
\* fixed 2-decimal string: item amounts, receipt totals, payment amounts,
\* VAT net and tax amounts and all report totals, whole numbers included.
C13_MoneyRenderedWithTwoDecimals ==
    (call.op \in {"ReceiptBytes", "ReportBytes"} /\ call.err = Nil) =>
        \A i \in 2..Len(call.out) :
            call.out[i - 1] \in {"<" \o t \o ">" : t \in MoneyTags}
                => IsTwoDecimal(call.out[i])

\* the five keys sumVatTotals emits
CanonicalVatKeys == {"A-18.00", "B-0.00", "C-0.00", "D-0.00", "E-0.00"}

\* the key "{ID}-{Rate with 2 decimals}" of a supplied entry is canonical
HasCanonicalKey(vat) == (vat.ID \o "-" \o Fmt2(vat.Rate)) \in CanonicalVatKeys

\* C14: a supplied VAT entry whose key "{ID}-{Rate with 2 decimals}" is not
\* one of the five canonical keys is dropped by sumVatTotals: the output has
\* five entries and no sixth, and they are the ones the list without the
\* entries of other keys gives.
C14_UnmatchedVatEntriesDropped ==
    call.op = "sumVatTotals" =>
        /\ Len(call.out) = 5
        /\ \A i \in 1..5 : call.out[i].VATRATE \in CanonicalVatKeys
        /\ call.out = sumVatTotals(SelectSeq(call.vats, HasCanonicalKey))

\* an entry of category A at the rate 10.00 was supplied after an entry of
\* A-18.00: only the entry of A-18.00 is counted
C14_Witness ==
    /\ call.op = "sumVatTotals"
    /\ Len(call.vats) = 2
    /\ HasCanonicalKey(call.vats[1])
    /\ call.vats[1].ID = "A"
    /\ call.vats[1].NetAmount = 4237290
    /\ call.vats[2].ID = "A"
    /\ call.vats[2].Rate = 10000
    /\ call.out[1].NETTAMOUNT = "4237.29"
    /\ call.out[1].TAXAMOUNT = "762.71"

\* the five types sumPayments emits
CanonicalPaymentTypes == {"CASH", "CHEQUE", "CCARD", "EMONEY", "INVOICE"}

HasCanonicalType(p) == p.Type \in CanonicalPaymentTypes

\* C15: a supplied payment whose type is not one of CASH, CHEQUE, CCARD,
\* EMONEY, INVOICE loses its amount in sumPayments: the output has five
\* entries and no other, and they are the ones the list without the
\* payments of other types gives.
C15_UnmatchedPaymentsDropped ==
    call.op = "sumPayments" =>
        /\ Len(call.out) = 5
        /\ \A i \in 1..5 : call.out[i].PMTTYPE \in CanonicalPaymentTypes
        /\ call.out = sumPayments(SelectSeq(call.payments, HasCanonicalType))

\* a payment of type "cash" and one of type "MPESA" were supplied with a
\* CASH payment: only the CASH payment is counted
C15_Witness ==
    /\ call.op = "sumPayments"
    /\ Len(call.payments) = 3
    /\ call.payments[1] = [Type |-> "cash", Amount |-> 5000000]
    /\ call.payments[2] = [Type |-> "CASH", Amount |-> 1252]
    /\ call.payments[3] = [Type |-> "MPESA", Amount |-> 5000000]
    /\ call.out[1] = [PMTTYPE |-> "CASH", PMTAMOUNT |-> "1.25"]
    /\ \A i \in 2..5 : call.out[i].PMTAMOUNT = "0.00"

---------------------------------------------------------------------------
(* Claims about the submission of a document *)

\* a submission has returned
Submitted == call.op \in SubmitOps /\ call.pc = "done"

IsContextOrNetError(ctxErr, err) ==
    \/ ctxErr # NilError
    \/ err \in {contextCanceled, contextDeadlineExceeded}
    \/ IsNetError(err)

C18_Status500IsApplicationError ==
    (Submitted /\ call.StatusCode = 500 /\ call.out.root = "Error") =>
        /\ call.resp = NilResponse
        /\ call.err # NilError
        /\ ~IsNetworkError(call.err)
        /\ call.err = errorString("registration error: " \o call.out.Message)
        /\ "EFDMS" \notin call.decoded

\* a receipt was answered with status 500 and the error body "Invalid TIN"
C18_Witness ==
    /\ Submitted
    /\ call.op = "submitReceipt"
    /\ call.StatusCode = 500
    /\ call.out = [root |-> "Error", Message |-> "Invalid TIN"]
    /\ call.err = errorString("registration error: Invalid TIN")
    /\ call.decoded = {"Error"}

\* C19: for every HTTP status other than 500 whose body decodes as the
\* acknowledgment envelope, submitReceipt and submitReport return a non-nil
\* Response carrying the ack number, date, time, code and message, and a nil
\* error, also when the ack code is not zero.
C19_AckReturnedWhateverItsCode ==
    (Submitted /\ call.StatusCode \notin {0, 500} /\ call.out.root = "EFDMS") =>
        /\ call.err = NilError
        /\ call.resp # NilResponse
        /\ call.out.element = ackElement(call.op) =>
              call.resp = [kind |-> "*Response", Number |-> call.out.NUM,
                           Date |-> call.out.DATE, Time |-> call.out.TIME,
                           Code |-> call.out.ACKCODE, Message |-> call.out.ACKMSG]

\* a report was answered with status 400 and an acknowledgment of code 7:
\* the Response carries the code and the error is nil
C19_Witness ==
    /\ Submitted
    /\ call.op = "submitReport"
    /\ call.StatusCode = 400
    /\ call.out.root = "EFDMS"
    /\ call.out.element = "ZACK"
    /\ call.err = NilError
    /\ call.resp.Code = 7
    /\ ~IsSuccess(call.resp.Code)
    /\ call.resp.Message = "Invalid client header"

\* C20: a call of submitReceipt or submitReport performs at most one HTTP
\* request: whatever the outcome of the transmit step (network error, HTTP
\* 500, non-zero ack code, decode failure) the call returns without sending
\* the document again.
C20_AtMostOneRequest ==
    call.op \in SubmitOps =>
        /\ call.requests <= 1
        /\ call.pc # "done" => call.requests = 1
        /\ (call.pc = "done" /\ (call.doErr # NilError \/ call.StatusCode # 0)) =>
              call.requests = 1

\* a submission has returned after a failure of the transport, having sent
\* the document once
C20_Witness ==
    /\ Submitted
    /\ call.requests = 1
    /\ call.doErr = urlError(netOpError("dial tcp: connection refused"))
    /\ IsNetworkError(call.err)

\* C21: a submission builds and signs its document before it transmits: when
\* the construction fails (the signing fails or the signature does not pass
\* its own verification) submitReceipt and submitReport return at once a nil
\* response and an error that wraps the failure, and no HTTP request is made
\* in that call; a request is only made for a document that was built.
C21_NoRequestWhenDocumentFails ==
    call.op \in SubmitOps =>
        /\ call.payloadErr # Nil =>
              /\ call.pc = "done"
              /\ call.requests = 0
              /\ call.resp = NilResponse
              /\ call.err.kind = "wrapError"
              /\ call.err.Err = errorString(call.payloadErr)
        /\ call.requests > 0 => call.payloadErr = Nil

\* submitReport has returned for a key whose signature fails the
\* verification, without a request
C21_Witness ==
    /\ Submitted
    /\ call.op = "submitReport"
    /\ call.key = [d |-> 2, PublicKey |-> 1, usable |-> TRUE]
    /\ call.payloadErr # Nil
    /\ call.requestURL = "https://vfd.tra.go.tz/api/efdmsRctInfo"
    /\ call.requests = 0
    /\ call.err # NilError

---------------------------------------------------------------------------
(* Documents built by several goroutines at once *)

\* the goroutines that build documents at the same time
Threads == {"t1", "t2"}

\* the package variables standardVAT .. exemptedVAT of vat.go, by their code:
\* the only memory the goroutines share besides the private key
vatTable ==
    (StandardVATCODE :> standardVAT) @@ (SpecialVATCODE :> specialVAT)
    @@ (ZeroVATCODE :> zeroVAT) @@ (SpecialReliefVATCODE :> specialReliefVAT)
    @@ (ExemptedVATCODE :> exemptedVAT)

\* ParseTaxCode as a goroutine runs it: a copy of the package variable of
\* the code, of standardVAT for a code without a variable
ParseTaxCodeOf(table, code) ==
    IF code \in DOMAIN table THEN table[code] ELSE table[StandardVATCODE]

\* one iteration of the loop of ProcessItems in a goroutine: the category is
\* read from the package variables, everything else is local
threadLoopBody(table, acc, item) ==
    LET itemAmount == item.Quantity * item.UnitPrice
        itemAmountWithoutDiscount == itemAmount - item.Discount
        vat == ParseTaxCodeOf(table, item.TaxCode)
        NETAMOUNT == vatNetAmount(vat, itemAmountWithoutDiscount)
        TAXAMOUNT == Round2(itemAmountWithoutDiscount - NETAMOUNT)
    IN [DISCOUNT |-> acc.DISCOUNT + item.Discount,
        TOTALTAXEXCLUSIVE |-> acc.TOTALTAXEXCLUSIVE + NETAMOUNT,
        TOTALTAXINCLUSIVE |-> acc.TOTALTAXINCLUSIVE + itemAmountWithoutDiscount,
        vatTotals |-> addVat(acc.vatTotals, vat.ID, NETAMOUNT, TAXAMOUNT),
        ITEMS |-> Append(acc.ITEMS, itemXML(item))]

\* the item lists of the goroutines: the tests' line alone, and with a
\* zero rated line before and after it
ThreadItemLists ==
    LET taxed == submitItems[1]
        zeroRated == [taxed EXCEPT !.TaxCode = NonTaxableItemCode, !.Discount = 0]
    IN {<<taxed>>, <<taxed, zeroRated>>, <<zeroRated, taxed>>}

\* what a goroutine is asked to build, with inputs of its own
ThreadCalls ==
    {[fn |-> "ProcessItems", items |-> items] : items \in ThreadItemLists}
    \cup {[fn |-> "ReceiptBytes", items |-> items, payments |-> submitPayments] :
             items \in {l \in ThreadItemLists : l[1].TaxCode = TaxableItemCode}}
    \cup {[fn |-> "ReportBytes", vats |-> submitVats, payments |-> submitPayments,
           totals |-> totals] : totals \in ReportTotalsSet}

\* a result not yet computed
noResult == [kind |-> "none"]

\* a goroutine at the start of its call
threadStart(c) ==
    [in |-> c, pc |-> IF c.fn = "ReportBytes" THEN "generate" ELSE "loop",
     i |-> 0, acc |-> loopStart, res |-> noResult, out |-> noResult]

\* the goroutines start together on their own inputs, with one private key
ThreadsInit ==
    \E key \in DocKeys, calls \in [Threads -> ThreadCalls] :
        call = [op |-> "concurrent", key |-> key, table |-> vatTable,
                threads |-> [t \in Threads |-> threadStart(calls[t])]]

\* a slip that works on the package variable itself rather than on a copy:
\* the variable read for an item is left with the rate 0
ThreadLoopThroughPointer ==
    \E t \in Threads :
        LET th == call.threads[t]
        IN /\ th.pc = "loop"
           /\ th.i < Len(th.in.items)
           /\ LET item == th.in.items[th.i + 1]
                  code == IF item.TaxCode \in DOMAIN call.table
                          THEN item.TaxCode ELSE StandardVATCODE
              IN call' = [call EXCEPT
                    !.table[code].Percentage = 0,
                    !.threads[t].i = @ + 1,
                    !.threads[t].acc = threadLoopBody(call.table, @, item)]

\* a goroutine runs one iteration of the loop over its items
ThreadLoop ==
    \E t \in Threads :
        LET th == call.threads[t]
        IN /\ th.pc = "loop"
           /\ th.i < Len(th.in.items)
           /\ call' = [call EXCEPT
                 !.threads[t].i = @ + 1,
                 !.threads[t].acc =
                     threadLoopBody(call.table, @, th.in.items[th.i + 1])]

\* a goroutine ranges over its vatTotals map and has the result of
\* ProcessItems: it returns it, or goes on to build the receipt around it
ThreadRange ==
    \E t \in Threads :
        LET th == call.threads[t]
        IN /\ th.pc = "loop"
           /\ th.i = Len(th.in.items)
           /\ \E order \in MapOrders(DOMAIN th.acc.vatTotals) :
                LET res == [ITEMS |-> th.acc.ITEMS,
                            VATTOTALS |-> [k \in 1..Len(order) |->
                               [VATRATE |-> th.acc.vatTotals[order[k]].VATRATE,
                                NETTAMOUNT |-> Fmt2(th.acc.vatTotals[order[k]].NETTAMOUNT),
                                TAXAMOUNT |-> Fmt2(th.acc.vatTotals[order[k]].TAXAMOUNT)]],
                            TOTALS |-> processTotals(th.acc)]
                IN call' = [call EXCEPT
                      !.threads[t].res = res,
                      !.threads[t].pc = IF th.in.fn = "ProcessItems"
                                        THEN "done" ELSE "sign",
                      !.threads[t].out = IF th.in.fn = "ProcessItems"
                                         THEN res ELSE @]

\* a goroutine of ReportBytes generates its Z report
ThreadGenerate ==
    \E t \in Threads :
        LET th == call.threads[t]
        IN /\ th.pc = "generate"
           /\ call' = [call EXCEPT
                 !.threads[t].pc = "sign",
                 !.threads[t].res =
                     generateZReport(reportParams, reportAddress, th.in.vats,
                                     th.in.payments, th.in.totals)]

\* a goroutine marshals its document, signs it with the shared key and
\* returns the bytes
ThreadSign ==
    \E t \in Threads :
        LET th == call.threads[t]
        IN /\ th.pc = "sign"
           /\ \E r \in
                {IF th.in.fn = "ReceiptBytes"
                 THEN LET rctPayments == [k \in 1..Len(th.in.payments) |->
                                 [PMTTYPE |-> th.in.payments[k].Type,
                                  PMTAMOUNT |-> Fmt2(th.in.payments[k].Amount)]]
                          p == receiptParams
                          c == receiptCustomer
                          receipt == rctRoundOff(
                             [DATE |-> p.Date, TIME |-> p.Time, TIN |-> p.TIN,
                              REGID |-> p.RegistrationID, EFDSERIAL |-> p.EFDSerial,
                              CUSTIDTYPE |-> c.Type, CUSTID |-> c.ID,
                              CUSTNAME |-> c.Name, MOBILENUM |-> c.Mobile,
                              RCTNUM |-> p.ReceiptNum, DC |-> p.DailyCounter,
                              GC |-> p.GlobalCounter, ZNUM |-> p.ZNum,
                              RCTVNUM |-> p.ReceiptVNum, ITEMS |-> th.res.ITEMS,
                              TOTALS |-> th.res.TOTALS, PAYMENTS |-> rctPayments,
                              VATTOTALS |-> th.res.VATTOTALS])
                          receiptBytes == stripWrappers(marshalRCT(receipt))
                          signed == Sign(call.key, Text(receiptBytes))
                      IN IF signed.err # Nil
                         THEN [out |-> Nil,
                               err |-> "could not sign receipt: " \o signed.err]
                         ELSE [out |-> envelope(receiptBytes,
                                                encodeBase64Bytes(signed.out)),
                               err |-> Nil]
                 ELSE LET payloadString ==
                              formatReportXmlPayload(marshalZREPORT(th.res),
                                                     th.in.totals)
                          signed == SignPayload(call.key, Text(payloadString))
                      IN IF signed.err # Nil
                         THEN [out |-> Nil,
                               err |-> "failed to sign the payload: " \o signed.err]
                         ELSE [out |-> envelope(payloadString,
                                                encodeBase64Bytes(signed.out)),
                               err |-> Nil]} :
                call' = [call EXCEPT !.threads[t].pc = "done",
                                     !.threads[t].out = r]

ThreadsNext ==
    \/ ThreadLoop
    \/ ThreadRange
    \/ ThreadGenerate
    \/ ThreadSign

ThreadsSpec == ThreadsInit /\ [][ThreadsNext]_vars

\* the results a call gives when it runs alone: one for each order in which
\* ProcessItems may range over its map
AloneResults(key, c) ==
    IF c.fn = "ProcessItems"
    THEN {ProcessItems(c.items, order) :
             order \in MapOrders(DOMAIN itemsLoop(c.items).vatTotals)}
    ELSE IF c.fn = "ReceiptBytes"
    THEN {LET r == ReceiptBytes(key, receiptParams, receiptCustomer, c.items,
                                c.payments, order)
          IN [out |-> r.out, err |-> r.err] :
             order \in MapOrders(DOMAIN itemsLoop(c.items).vatTotals)}
    ELSE {LET r == ReportBytes(key, reportParams, reportAddress, c.vats,
                               c.payments, c.totals)
          IN [out |-> r.out, err |-> r.err]}

\* C22: when ProcessItems, ReceiptBytes and ReportBytes run in several
\* goroutines at once, each on inputs of its own and all with one private
\* key, every interleaving of their steps gives each call a result the call
\* gives when it runs alone, and the package variables of the VAT categories
\* and the key are never modified.
C22_ConcurrentBuildsDoNotInterfere ==
    /\ call.table = vatTable
    /\ call.key \in DocKeys
    /\ \A t \in Threads :
          call.threads[t].pc = "done" =>
              call.threads[t].out \in AloneResults(call.key, call.threads[t].in)

\* one goroutine has returned the bytes of a receipt of two lines and the
\* other the result of ProcessItems over lines of two categories
C22_Witness ==
    /\ call.threads["t1"].pc = "done"
    /\ call.threads["t1"].in.fn = "ReceiptBytes"
    /\ call.threads["t1"].out.err = Nil
    /\ Len(call.threads["t1"].in.items) = 2
    /\ call.threads["t2"].pc = "done"
    /\ call.threads["t2"].in.fn = "ProcessItems"
    /\ Len(call.threads["t2"].out.VATTOTALS) = 2

---------------------------------------------------------------------------
(* Claims about the tables of codes *)

PaymentTypeOf(value) ==
    IF value.type \in {"int", "int64"} /\ value.n \in 1..5
    THEN <<"CASH", "CHEQUE", "CCARD", "EMONEY", "INVOICE">>[value.n]
    ELSE IF value.type = "string" /\ ToUpper(value.s) \in CanonicalPaymentTypes
    THEN ToUpper(value.s)
    ELSE "CASH"

\* C24: ParsePayment never fails: for an int, an int64, a string in any
\* letter case and a value of any other type it returns a PaymentType, the
\* type of 1..5 and of the names CASH, CHEQUE, CCARD, EMONEY, INVOICE
\* whatever their case, and CASH for every value it does not recognize.
C24_ParsePaymentNeverFails ==
    call.op = "ParsePayment" =>
        /\ call.panic = Nil
        /\ call.out = PaymentTypeOf(call.value)

URLOfAction(urls, action) ==
    CASE action = "register" -> urls.Registration
      [] action = "token" -> urls.FetchToken
      [] action = "receipt" -> urls.SubmitReceipt
      [] action = "report" -> urls.SubmitReport
      [] action = "verification" -> urls.VerifyReceipt
      [] OTHER -> ""

\* C26: RequestURL returns the URL of the action in the environment, the
\* production URL for PROD and the testing URL for TEST, and the empty
\* string when the action is not one of the five actions or the environment
\* is not one the env package declares.
C26_RequestURLEmptyWhenUnrecognized ==
    call.op = "RequestURL" =>
        /\ call.e = PROD => call.out = URLOfAction(productionURLs, call.action)
        /\ call.e = TEST => call.out = URLOfAction(testingURLs, call.action)
        /\ call.e \notin {DEV, TEST, STAGING, PROD} => call.out = ""

---------------------------------------------------------------------------
(* Claims about the signed payload *)

\* the tokens of a document between its "<EFDMS>" and "<EFDMSSIGNATURE>"
SignedTokens(doc) ==
    SubSeq(doc, IndexOf(doc, "<EFDMS>") + 1, IndexOf(doc, "<EFDMSSIGNATURE>") - 1)

\* the wrapper tags of the repeated elements
WrapperTags == {"<PAYMENT>", "</PAYMENT>", "<VATTOTAL>", "</VATTOTAL>"}

\* the tokens inside the first element tag of a token sequence
ChildrenOf(tokens, tag) ==
    SubSeq(tokens, IndexOf(tokens, "<" \o tag \o ">") + 1,
           IndexOf(tokens, "</" \o tag \o ">") - 1)

\* the leaves of payments and of VAT totals, one after the other with no
\* wrapper around them
PaymentLeaves(ps) ==
    Flatten([k \in 1..Len(ps) |->
        Leaf("PMTTYPE", ps[k].PMTTYPE) \o Leaf("PMTAMOUNT", ps[k].PMTAMOUNT)])

VatLeaves(vs) ==
    Flatten([k \in 1..Len(vs) |->
        Leaf("VATRATE", vs[k].VATRATE) \o Leaf("NETTAMOUNT", vs[k].NETTAMOUNT)
        \o Leaf("TAXAMOUNT", vs[k].TAXAMOUNT)])

\* C27: the payload ReceiptBytes and ReportBytes sign holds none of the
\* wrapper tags <PAYMENT>, </PAYMENT>, <VATTOTAL>, </VATTOTAL>; the children
\* of every payment and of every VAT total stay in their order inside
\* <PAYMENTS> and <VATTOTALS>; the tags are stripped after the document is
\* serialized and before it is signed, so the signed bytes are the stripped
\* ones.
C27_SignedPayloadHasNoWrappers ==
    (call.op \in {"ReceiptBytes", "ReportBytes"} /\ call.err = Nil) =>
        LET payload == SignedTokens(call.out)
        IN /\ Text(payload) = call.signed
           /\ \A k \in 1..Len(payload) : payload[k] \notin WrapperTags
           /\ IF call.op = "ReceiptBytes"
              THEN /\ ChildrenOf(payload, "PAYMENTS") =
                         PaymentLeaves([k \in 1..Len(call.payments) |->
                             [PMTTYPE |-> call.payments[k].Type,
                              PMTAMOUNT |-> Fmt2(call.payments[k].Amount)]])
                   /\ \E order \in MapOrders(DOMAIN itemsLoop(call.items).vatTotals) :
                         ChildrenOf(payload, "VATTOTALS") =
                             VatLeaves(ProcessItems(call.items, order).VATTOTALS)
              ELSE /\ ChildrenOf(payload, "PAYMENTS") =
                         PaymentLeaves(sumPayments(call.payments))
                   /\ ChildrenOf(payload, "VATTOTALS") =
                         VatLeaves(sumVatTotals(call.vats))

\* a receipt with two payments and VAT totals of two categories was signed:
\* its payload holds the leaves of the payments one after the other
C27_Witness ==
    /\ call.op = "ReceiptBytes"
    /\ call.err = Nil
    /\ Len(call.payments) = 2
    /\ call.payments[1].Type # call.payments[2].Type
    /\ Len(call.items) = 2
    /\ call.items[1].TaxCode # call.items[2].TaxCode
    /\ Len(ChildrenOf(SignedTokens(call.out), "PAYMENTS")) = 12
    /\ Len(ChildrenOf(SignedTokens(call.out), "VATTOTALS")) = 18

---------------------------------------------------------------------------
(* client.go: the Client and its HTTP client *)

\* the longest list of options handed to NewClient
MaxOptions == 2

\* the most calls of SetHttpClient on one Client
MaxSetCalls == 2

\* http.DefaultClient
DefaultClient == "http.DefaultClient"

\* the *http.Client values a caller may pass: two clients of its own, and nil
HttpClients == {"clientA", "clientB", Nil}

\* WithHttpClient(http) applied to a Client: c.http = http
WithHttpClient(c, http) == [c EXCEPT !.http = http]

\* NewClient(options...): the default client, then every option in turn
RECURSIVE NewClient(_)
NewClient(options) ==
    IF options = <<>> THEN [http |-> DefaultClient]
    ELSE WithHttpClient(NewClient(SubSeq(options, 1, Len(options) - 1)),
                        options[Len(options)])

\* (c *Client) SetHttpClient(http): a nil argument is ignored
SetHttpClient(c, http) == IF http # Nil THEN [c EXCEPT !.http = http] ELSE c

\* the methods of a Client that hand c.http to the HTTP code
ClientMethods == {"Register", "FetchToken", "SubmitReceipt", "SubmitReport"}

\* a Client after NewClient with a list of WithHttpClient options
ClientInit ==
    \E options \in SeqsUpTo(HttpClients, MaxOptions) :
        call = [op |-> "Client", options |-> options, c |-> NewClient(options),
                sets |-> 0, last |-> "NewClient", arg |-> Nil, ran |-> "none"]

\* the caller replaces the HTTP client
CallSetHttpClient ==
    /\ call.op = "Client"
    /\ call.sets < MaxSetCalls
    /\ \E http \in HttpClients :
         call' = [call EXCEPT !.c = SetHttpClient(call.c, http), !.sets = @ + 1,
                              !.last = "SetHttpClient", !.arg = http,
                              !.ran = "none"]

\* the caller runs a method, which passes c.http on
CallClientMethod ==
    /\ call.op = "Client"
    /\ \E method \in ClientMethods :
         call' = [call EXCEPT !.last = method, !.arg = Nil, !.ran = call.c.http]

ClientNext ==
    \/ CallSetHttpClient
    \/ CallClientMethod

ClientSpec == ClientInit /\ [][ClientNext]_vars

---------------------------------------------------------------------------
(* Claims about error values and the client *)

\* C28: every NetworkError checkNetworkError returns carries a cause: its
\* Err is not nil whatever the state of the context (live, cancelled, past
\* its deadline) and whatever the non-nil error, context.Canceled and
\* context.DeadlineExceeded under a live context included, so that Error()
\* and Unwrap() can be called on it.
C28_NetworkErrorHasCause ==
    /\ (call.op = "checkNetworkError" /\ call.out.kind = "*NetworkError") =>
          call.out.Err # NilError
    /\ (Submitted /\ call.err.kind = "*NetworkError") => call.err.Err # NilError

\* C29: a Client always holds an HTTP client: after NewClient with any
\* options, WithHttpClient(nil) included, and any calls of SetHttpClient,
\* SetHttpClient(nil) included, its http field is not nil, and Register,
\* FetchToken, SubmitReceipt and SubmitReport never run with a nil client.
C29_ClientAlwaysHasHttpClient ==
    call.op = "Client" =>
        /\ call.c.http # Nil
        /\ call.last \in ClientMethods => call.ran # Nil

---------------------------------------------------------------------------
(* Claims about the totals of a receipt *)

\* the digit a character stands for
DigitValue(ch) == CHOOSE d \in 0..9 : ToString(d) = ch

\* the number a string of digits stands for
RECURSIVE ParseDigits(_)
ParseDigits(str) ==
    IF str = "" THEN 0
    ELSE 10 * ParseDigits(SubSeq(str, 1, Len(str) - 1))
            + DigitValue(SubSeq(str, Len(str), Len(str)))

\* the amount, in mills, that a text with two decimals stands for
ParseMoney(text) ==
    LET neg == SubSeq(text, 1, 1) = "-"
        body == IF neg THEN SubSeq(text, 2, Len(text)) ELSE text
        n == Len(body)
        cents == 100 * ParseDigits(SubSeq(body, 1, n - 3))
                    + ParseDigits(SubSeq(body, n - 1, n))
    IN IF neg THEN -10 * cents ELSE 10 * cents

\* C30: for an item list whose taxable amounts (quantity x unit price -
\* discount) are whole cents, the totals ProcessItems returns reconcile with
\* its VAT totals: the tax exclusive total is the sum of the net amounts of
\* the emitted categories, and the tax inclusive total is the tax exclusive
\* total plus the sum of their tax amounts.
C30_TotalsReconcileWithVatTotals ==
    (call.op = "ProcessItems"
       /\ \A i \in 1..Len(call.items) : IsWholeCents(TaxableAmount(call.items[i]))) =>
        LET V == call.out.VATTOTALS
            T == call.out.TOTALS
            nets == SumSeq([k \in 1..Len(V) |-> ParseMoney(V[k].NETTAMOUNT)])
            taxes == SumSeq([k \in 1..Len(V) |-> ParseMoney(V[k].TAXAMOUNT)])
        IN /\ T.TOTALTAXEXCL = nets
           /\ T.TOTALTAXINCL = T.TOTALTAXEXCL + taxes

\* a standard rated line with the tests' discount and a zero rated line
\* without one: two categories, 14237.29 before tax and 15000.00 with it
C30_Witness ==
    /\ call.op = "ProcessItems"
    /\ Len(call.items) = 2
    /\ call.items[1].TaxCode = 1 /\ call.items[1].Discount = 5000000
    /\ call.items[2].TaxCode = 3 /\ call.items[2].Discount = 0
    /\ \A i \in 1..2 : call.items[i].ID = "1"
    /\ Len(call.out.VATTOTALS) = 2
    /\ call.out.TOTALS.TOTALTAXEXCL = 14237290
    /\ call.out.TOTALS.TOTALTAXINCL = 15000000

====
